---- MODULE Spec2Model ----
(***************************************************************************)
(* The supply phase of the PHP buildpack (src/src/php/supply/supply.go):   *)
(* Supplier.Run and the steps it calls, as a state machine.                *)
(*                                                                         *)
(* A Go string is a sequence of one-character strings, so that prefix      *)
(* tests, slicing, replacement and the alias regular expression are        *)
(* computed character by character as the code computes them.  The empty   *)
(* Go string is << >>.                                                     *)
(***************************************************************************)
EXTENDS Integers, Sequences, FiniteSets, TLC

(***************************************************************************)
(* String helpers (Go's strings package, as used by supply.go)             *)
(***************************************************************************)

Digits == {"0", "1", "2", "3", "4", "5", "6", "7", "8", "9"}

\* strings.HasPrefix(s, p)
HasPrefix(s, p) ==
    /\ Len(s) >= Len(p)
    /\ SubSeq(s, 1, Len(p)) = p

\* strings.Replace(s, old, new, -1) for a non-empty old: every
\* non-overlapping occurrence, leftmost first.
RECURSIVE Replace(_, _, _)
Replace(s, old, new) ==
    IF Len(s) < Len(old) THEN s
    ELSE IF HasPrefix(s, old)
         THEN new \o Replace(SubSeq(s, Len(old) + 1, Len(s)), old, new)
         ELSE <<Head(s)>> \o Replace(Tail(s), old, new)

\* strings.Split(s, sep) for a one-character sep
RECURSIVE Split(_, _)
SplitAt(s, sep, i) ==
    <<SubSeq(s, 1, i - 1)>> \o Split(SubSeq(s, i + 1, Len(s)), sep)
Split(s, sep) ==
    IF \A i \in 1..Len(s) : s[i] # sep THEN <<s>>
    ELSE SplitAt(s, sep, CHOOSE k \in 1..Len(s) :
                             s[k] = sep /\ \A j \in 1..(k - 1) : s[j] # sep)

\* strings.Join(parts, sep)
RECURSIVE Join(_, _)
Join(parts, sep) ==
    IF parts = << >> THEN << >>
    ELSE IF Len(parts) = 1 THEN parts[1]
    ELSE parts[1] \o sep \o Join(Tail(parts), sep)

\* The elements of a sequence
Range(f) == {f[i] : i \in DOMAIN f}

\* All orders in which a finite set can be enumerated (Go ranges over a map
\* in an unspecified order)
RECURSIVE Orders(_)
Orders(S) ==
    IF S = {} THEN {<< >>}
    ELSE UNION {{<<x>> \o o : o \in Orders(S \ {x})} : x \in S}

(***************************************************************************)
(* Literals of the source                                                  *)
(***************************************************************************)

PHP_PREFIX == <<"P","H","P","_">>
LATEST_SUFFIX == <<"_","L","A","T","E","S","T">>
GE == <<">","=">>
PESSIMISTIC == <<"~",">">>
EXT_PREFIX == <<"e","x","t","-">>
EXT_PDO_PREFIX == <<"e","x","t","-","p","d","o","_">>
PDO == <<"p","d","o">>
PHP == <<"p","h","p">>
OPENSSL == <<"o","p","e","n","s","s","l">>

(***************************************************************************)
(* The alias regular expression and its expansion                          *)
(***************************************************************************)

\* `PHP_(\d)(\d)_LATEST` matches s at position i
AliasAt(s, i) ==
    /\ i + 12 <= Len(s)
    /\ SubSeq(s, i, i + 3) = PHP_PREFIX
    /\ s[i + 4] \in Digits
    /\ s[i + 5] \in Digits
    /\ SubSeq(s, i + 6, i + 12) = LATEST_SUFFIX

\* regexp.FindStringSubmatch: the leftmost match with its two groups, or the
\* empty (nil) slice.  The expression is not anchored.
SubmatchAt(s, i) == <<SubSeq(s, i, i + 12), <<s[i + 4]>>, <<s[i + 5]>> >>
FindStringSubmatch(s) ==
    IF \E i \in 1..Len(s) : AliasAt(s, i)
    THEN SubmatchAt(s, CHOOSE k \in 1..Len(s) :
                           AliasAt(s, k) /\ \A j \in 1..(k - 1) : ~AliasAt(s, j))
    ELSE << >>

\* Interpolate, were the whole match m[0] and the first group formatted
\* instead of the two groups
InterpolateWholeMatch(version, m) ==
    IF Len(m) = 3
    THEN m[1] \o <<".">> \o m[2] \o <<".", "x">>
    ELSE version

\* The value SetupPhpVersion gives PhpVersion for a non-empty PHP_VERSION
\* whose submatch is m: fmt.Sprintf("%s.%s.x", m[1], m[2]) on a match
Interpolate(version, m) ==
    IF Len(m) = 3
    THEN m[2] \o <<".">> \o m[3] \o <<".", "x">>
    ELSE version
ExpandAlias(version) == Interpolate(version, FindStringSubmatch(version))

\* versionLine(v): the last dot-separated component replaced by x
LastToX(vs) == Join([vs EXCEPT ![Len(vs)] = <<"x">>], <<".">>)
versionLine(v) == LastToX(Split(v, "."))

(***************************************************************************)
(* The dependency manifest's version matching (libbuildpack): a constraint *)
(* is an exact pin a.b.c, a wildcard a.b.x or a.x, or the compatible-with  *)
(* operator ~>a.b.c (at least a.b.c, below a.(b+1).0) or ~>a.b (at least   *)
(* a.b.0, below (a+1).0.0); the highest satisfying catalog entry is taken. *)
(***************************************************************************)

DigitVal(c) ==
    CASE c = "0" -> 0 [] c = "1" -> 1 [] c = "2" -> 2 [] c = "3" -> 3
      [] c = "4" -> 4 [] c = "5" -> 5 [] c = "6" -> 6 [] c = "7" -> 7
      [] c = "8" -> 8 [] c = "9" -> 9

IsNumber(s) == Len(s) > 0 /\ \A i \in 1..Len(s) : s[i] \in Digits

RECURSIVE ToNat(_)
ToNat(s) ==
    IF s = << >> THEN 0
    ELSE 10 * ToNat(SubSeq(s, 1, Len(s) - 1)) + DigitVal(s[Len(s)])

\* <<a, b, c>> of numeric components
IsTriple(p) == Len(p) = 3 /\ \A i \in 1..3 : IsNumber(p[i])
Triple(p) == <<ToNat(p[1]), ToNat(p[2]), ToNat(p[3])>>

\* a.b.c with numeric components
IsVersion(s) == IsTriple(Split(s, "."))
VersionOf(s) == Triple(Split(s, "."))

\* a < b on <<major, minor, patch>>
VersionLess(a, b) ==
    \/ a[1] < b[1]
    \/ a[1] = b[1] /\ a[2] < b[2]
    \/ a[1] = b[1] /\ a[2] = b[2] /\ a[3] < b[3]

InvalidConstraint == [kind |-> "invalid", lo |-> <<0, 0, 0>>, hi |-> <<0, 0, 0>>]
Range3(lo, hi) == [kind |-> "range", lo |-> lo, hi |-> hi]

\* ~>a.b.c and ~>a.b, split at the dots into p
PessimisticRange(p) ==
    IF Len(p) = 3 /\ \A i \in 1..3 : IsNumber(p[i])
    THEN Range3(<<ToNat(p[1]), ToNat(p[2]), ToNat(p[3])>>,
                <<ToNat(p[1]), ToNat(p[2]) + 1, 0>>)
    ELSE IF Len(p) = 2 /\ \A i \in 1..2 : IsNumber(p[i])
    THEN Range3(<<ToNat(p[1]), ToNat(p[2]), 0>>, <<ToNat(p[1]) + 1, 0, 0>>)
    ELSE InvalidConstraint

\* a.b.c, a.b.x and a.x, split at the dots into p
PlainRange(p) ==
    IF Len(p) = 3 /\ \A i \in 1..3 : IsNumber(p[i])
    THEN Range3(<<ToNat(p[1]), ToNat(p[2]), ToNat(p[3])>>,
                <<ToNat(p[1]), ToNat(p[2]), ToNat(p[3]) + 1>>)
    ELSE IF Len(p) = 3 /\ IsNumber(p[1]) /\ IsNumber(p[2]) /\ p[3] = <<"x">>
    THEN Range3(<<ToNat(p[1]), ToNat(p[2]), 0>>, <<ToNat(p[1]), ToNat(p[2]) + 1, 0>>)
    ELSE IF Len(p) = 2 /\ IsNumber(p[1]) /\ p[2] = <<"x">>
    THEN Range3(<<ToNat(p[1]), 0, 0>>, <<ToNat(p[1]) + 1, 0, 0>>)
    ELSE InvalidConstraint

\* The range [lo, hi) a constraint string denotes
ConstraintOf(c) ==
    IF HasPrefix(c, PESSIMISTIC)
    THEN PessimisticRange(Split(SubSeq(c, 3, Len(c)), "."))
    ELSE PlainRange(Split(c, "."))

\* Version v lies in range r
Within(v, r) == r.kind = "range" /\ ~VersionLess(v, r.lo) /\ VersionLess(v, r.hi)

\* Catalog entry v satisfies constraint string c
Satisfies(v, c) == IsVersion(v) /\ Within(VersionOf(v), ConstraintOf(c))

\* The highest of the matching entries, or an error when there is none
Highest(matching) ==
    IF matching = {}
    THEN [err |-> TRUE, v |-> << >>]
    ELSE [err |-> FALSE,
          v |-> CHOOSE v \in matching :
                    \A w \in matching : ~VersionLess(VersionOf(v), VersionOf(w))]

\* libbuildpack.FindMatchingVersion(constraint, versions): the highest
\* matching entry, or an error when the constraint is invalid or matches
\* nothing.
FindMatchingVersion(constraint, versions) ==
    Highest({v \in versions : Satisfies(v, constraint)})

(***************************************************************************)
(* JSON values as encoding/json decodes them into interface{}: a value     *)
(* carries its dynamic type, and a type assertion succeeds only on a       *)
(* value of that type.  An object is the set of its <<key, value>> pairs,   *)
(* one per key; the nil map is the empty set.                              *)
(***************************************************************************)

JNull == [t |-> "null", s |-> << >>, a |-> << >>, m |-> {}]
JNum == [t |-> "number", s |-> << >>, a |-> << >>, m |-> {}]
JStr(s) == [t |-> "string", s |-> s, a |-> << >>, m |-> {}]
JArr(a) == [t |-> "array", s |-> << >>, a |-> a, m |-> {}]
JObj(m) == [t |-> "object", s |-> << >>, a |-> << >>, m |-> m]

NilMap == {}

\* The keys of a map
Keys(m) == {p[1] : p \in m}

\* m[k] on a Go map: the nil interface when k is absent
Lookup(m, k) ==
    IF k \in Keys(m) THEN (CHOOSE p \in m : p[1] = k)[2] ELSE JNull

\* The map with the keys of K, each bound to v
MapOf(K, v) == {<<k, v>> : k \in K}

\* The elements of a path as filepath.Clean leaves them, out being the ones
\* kept so far: empty elements and "." go, ".." takes the element before
\* it, or goes when the path is rooted and nothing is before it
RECURSIVE CleanElems(_, _, _)
CleanElems(elems, out, rooted) ==
    IF elems = << >> THEN out
    ELSE IF Head(elems) \in {<< >>, <<".">>} THEN CleanElems(Tail(elems), out, rooted)
    ELSE IF Head(elems) # <<".", ".">>
    THEN CleanElems(Tail(elems), Append(out, Head(elems)), rooted)
    ELSE IF out # << >> /\ out[Len(out)] # <<".", ".">>
    THEN CleanElems(Tail(elems), SubSeq(out, 1, Len(out) - 1), rooted)
    ELSE IF rooted THEN CleanElems(Tail(elems), out, rooted)
    ELSE CleanElems(Tail(elems), Append(out, Head(elems)), rooted)

\* filepath.Clean, with / as the separator
Clean(path) ==
    IF path = << >> THEN <<".">>
    ELSE IF path[1] = "/"
    THEN <<"/">> \o Join(CleanElems(Split(path, "/"), << >>, TRUE), <<"/">>)
    ELSE IF CleanElems(Split(path, "/"), << >>, FALSE) = << >> THEN <<".">>
    ELSE Join(CleanElems(Split(path, "/"), << >>, FALSE), <<"/">>)

\* filepath.Join(dir, name): the elements that are not empty, joined by /
\* and cleaned; the empty string when both are empty
PathJoin(dir, name) ==
    IF dir = << >> /\ name = << >> THEN << >>
    ELSE IF dir = << >> THEN Clean(name)
    ELSE IF name = << >> THEN Clean(dir)
    ELSE Clean(dir \o <<"/">> \o name)

COMPOSER_JSON == <<"c","o","m","p","o","s","e","r",".","j","s","o","n">>
PHP_VERSION == <<"P","H","P","_","V","E","R","S","I","O","N">>
PHP_EXTENSIONS == <<"P","H","P","_","E","X","T","E","N","S","I","O","N","S">>
ZEND_EXTENSIONS == <<"Z","E","N","D","_","E","X","T","E","N","S","I","O","N","S">>
WEBDIR == <<"W","E","B","D","I","R">>
REQUIRE == <<"r","e","q","u","i","r","e">>

(***************************************************************************)
(* Errors and log entries.  An error is the sequence of the parts of its   *)
(* message, outermost first: fmt.Errorf("label: %s", err) puts the label   *)
(* in front of err's parts.  nil is << >>.                                 *)
(***************************************************************************)

NoError == << >>
Wrap(label, err) == <<label>> \o err
Entry(level, msg) == [level |-> level, msg |-> msg]

(***************************************************************************)
(* ReadConfig                                                              *)
(***************************************************************************)

\* json.Unmarshal of a file that decodes to the object json into the map
\* target: the keys of json are set, the other keys of target stay
Unmarshal(target, json) == {p \in target : p[1] \notin Keys(json)} \cup json

\* The result of ReadConfig in world w, given the Supplier's OptionsJson,
\* WebDir, ComposerPath and ComposerJson before the call: the fields it
\* leaves, what it logs and the error it returns.  JSON.Load of a file that
\* is not there returns an error os.IsNotExist holds of, which leaves the
\* target as it was; the files of the world are all the files there are, so
\* that a ComposerPath left from before the call, no composer.json having
\* been found, names a file that is not there.
ReadConfigResult(w, optionsJson0, webDir0, composerPath0, composerJson0) ==
    LET optErr == w.options.stat = "error"
                  \/ (w.options.stat = "present" /\ ~w.options.valid)
        optionsJson == IF w.options.stat = "present" /\ w.options.valid
                       THEN Unmarshal(optionsJson0, w.options.json) ELSE optionsJson0
        webdir == LET j == Lookup(optionsJson, WEBDIR)
                  IN  IF j.t = "string" THEN j.s ELSE << >>
        path1 == IF w.composer.stat = "present"
                 THEN PathJoin(w.stager.buildDir, COMPOSER_JSON)
                 ELSE composerPath0
        altErr == w.composerPathEnv # << >> /\ w.altComposer.stat = "error"
        altFound == w.composerPathEnv # << >> /\ w.altComposer.stat = "present"
        path2 == IF altFound
                 THEN PathJoin(PathJoin(w.stager.buildDir, w.composerPathEnv), COMPOSER_JSON)
                 ELSE path1
        file == IF altFound THEN w.altComposer ELSE w.composer
        loadErr == path2 # << >> /\ file.stat = "present" /\ ~file.valid
        composerJson == IF path2 # << >> /\ file.stat = "present" /\ file.valid
                        THEN Unmarshal(composerJson0, file.json) ELSE composerJson0
    IN  IF optErr
        THEN [err |-> <<"options.json: load failed">>,
              OptionsJson |-> optionsJson0, WebDir |-> webDir0,
              ComposerPath |-> composerPath0, ComposerJson |-> composerJson0,
              log |-> <<Entry("error", "Invalid JSON present in options.json")>>]
        ELSE IF w.composer.stat = "error"
        THEN [err |-> <<"composer.json: stat failed">>,
              OptionsJson |-> optionsJson, WebDir |-> webdir,
              ComposerPath |-> composerPath0, ComposerJson |-> composerJson0,
              log |-> << >>]
        ELSE IF altErr
        THEN [err |-> <<"COMPOSER_PATH/composer.json: stat failed">>,
              OptionsJson |-> optionsJson, WebDir |-> webdir,
              ComposerPath |-> path1, ComposerJson |-> composerJson0,
              log |-> << >>]
        ELSE IF loadErr
        THEN [err |-> <<"composer.json: load failed">>,
              OptionsJson |-> optionsJson, WebDir |-> webdir,
              ComposerPath |-> path2, ComposerJson |-> composerJson0,
              log |-> <<Entry("error", "Invalid JSON present in composer.json")>>]
        ELSE [err |-> NoError,
              OptionsJson |-> optionsJson, WebDir |-> webdir,
              ComposerPath |-> path2, ComposerJson |-> composerJson,
              log |-> << >>]

(***************************************************************************)
(* SetupPhpVersion                                                         *)
(***************************************************************************)

\* PhpVersion after the options.json block
OptionsVersion(optionsJson, phpVersion) ==
    LET j == Lookup(optionsJson, PHP_VERSION)
    IN  IF j.t = "string" /\ j.s # << >> THEN ExpandAlias(j.s) ELSE phpVersion

\* composer.json's require, when it is an object
Require(composerJson) ==
    LET r == Lookup(composerJson, REQUIRE)
    IN  IF r.t = "object" THEN r.m ELSE NilMap

\* composer.json declares a non-empty require.php string
ComposerDeclares(composerJson) ==
    LET j == Lookup(Require(composerJson), PHP)
    IN  j.t = "string" /\ j.s # << >>

\* The two precedence warnings are logged
PrecedenceWarning(composerJson, phpVersion) ==
    ComposerDeclares(composerJson) /\ phpVersion # << >>

\* ComposerVersion, were a version from options.json kept
ComposerVersionUnlessOptions(composerJson, phpVersion) ==
    IF ComposerDeclares(composerJson) /\ phpVersion = << >>
    THEN Replace(Lookup(Require(composerJson), PHP).s, GE, PESSIMISTIC)
    ELSE phpVersion

\* PhpVersion after the composer.json block
ComposerVersion(composerJson, phpVersion) ==
    IF ComposerDeclares(composerJson)
    THEN Replace(Lookup(Require(composerJson), PHP).s, GE, PESSIMISTIC)
    ELSE phpVersion

\* PhpVersion after the matching block, and whether the
\* not-available warning is logged
Matched(m) ==
    IF m.err THEN [PhpVersion |-> << >>, warned |-> TRUE]
             ELSE [PhpVersion |-> m.v, warned |-> FALSE]
\* MatchVersion, were the lowest catalog entry taken instead of the match
MatchVersionLowest(phpVersion, versions) ==
    IF phpVersion # << >> /\ versions # {}
    THEN [PhpVersion |-> CHOOSE v \in versions :
                             \A w \in versions : ~VersionLess(VersionOf(w), VersionOf(v)),
          warned |-> FALSE]
    ELSE [PhpVersion |-> << >>, warned |-> phpVersion # << >>]
MatchVersion(phpVersion, versions) ==
    IF phpVersion # << >>
    THEN Matched(FindMatchingVersion(phpVersion, versions))
    ELSE [PhpVersion |-> phpVersion, warned |-> FALSE]

\* DefaultVersion, were the error of the default lookup dropped
DefaultVersionIgnoringError(phpVersion, def) ==
    IF phpVersion = << >> /\ ~def.err
    THEN [PhpVersion |-> def.version, err |-> NoError]
    ELSE [PhpVersion |-> phpVersion, err |-> NoError]

\* PhpVersion and the error after the default block; def is what
\* Manifest.DefaultVersion("php") returns
DefaultVersion(phpVersion, def) ==
    IF phpVersion = << >>
    THEN IF def.err THEN [PhpVersion |-> phpVersion, err |-> <<"no default version for php">>]
                    ELSE [PhpVersion |-> def.version, err |-> NoError]
    ELSE [PhpVersion |-> phpVersion, err |-> NoError]

(***************************************************************************)
(* SetupExtensions                                                         *)
(***************************************************************************)

BZ2 == <<"b","z","2">>
ZLIB == <<"z","l","i","b">>
CURL == <<"c","u","r","l">>
MCRYPT == <<"m","c","r","y","p","t">>

\* The built-in default set of the earlier revision, openssl included
BuiltinExtensionsWithOpenssl == {BZ2, ZLIB, CURL, MCRYPT, OPENSSL}

\* The built-in default set
BuiltinExtensions == {BZ2, ZLIB, CURL, MCRYPT}

\* for _, val := range arr: every string element is added, one at a time
RECURSIVE AddStrings(_, _)
AddStrings(set, arr) ==
    IF arr = << >> THEN set
    ELSE AddStrings(IF Head(arr).t = "string" THEN set \cup {Head(arr).s} ELSE set,
                    Tail(arr))

\* LegacyExtensions, were the array added to cur instead of replacing it
LegacyExtensionsUnion(cur, j) ==
    IF j.t = "array" THEN AddStrings(cur, j.a) ELSE cur

\* The PHP_EXTENSIONS and the ZEND_EXTENSIONS block: an array replaces cur
LegacyExtensions(cur, j) ==
    IF j.t = "array" THEN AddStrings({}, j.a) ELSE cur

\* RequireKey without the umbrella pdo, as in the earlier revision
RequireKeyNoUmbrella(set, k) ==
    IF HasPrefix(k, EXT_PREFIX) THEN set \cup {SubSeq(k, 5, Len(k))} ELSE set

\* RequireKey, were the set assigned instead of added to
RequireKeyAssigning(set, k) ==
    IF HasPrefix(k, EXT_PREFIX)
    THEN {SubSeq(k, 5, Len(k))} \cup (IF HasPrefix(k, EXT_PDO_PREFIX) THEN {PDO} ELSE {})
    ELSE set

\* The body of the loop over composer.json's require keys
RequireKey(set, k) ==
    LET s1 == IF HasPrefix(k, EXT_PREFIX)
              THEN set \cup {SubSeq(k, 5, Len(k))} ELSE set
    IN  IF HasPrefix(k, EXT_PDO_PREFIX) THEN s1 \cup {PDO} ELSE s1

\* for k, _ := range requires, in the order keys
RECURSIVE RequireLoop(_, _)
RequireLoop(set, keys) ==
    IF keys = << >> THEN set
    ELSE RequireLoop(RequireKey(set, Head(keys)), Tail(keys))

(***************************************************************************)
(* WriteConfigFiles: the two binding contexts                              *)
(***************************************************************************)

EXTENSION_EQ == <<"e","x","t","e","n","s","i","o","n","=">>
DOT_SO_NL == <<".","s","o","\n">>
ZEND_EXTENSION_EQ == <<"z","e","n","d","_","e","x","t","e","n","s","i","o","n","=">>
NL == <<"\n">>
LISTEN == <<"1","2","7",".","0",".","0",".","1",":","9","0","0","0">>
TPL_HOME == <<"{","{",".","H","O","M","E","}","}">>
TPL_DEPS_DIR == <<"{","{",".","D","E","P","S","_","D","I","R","}","}">>
TPL_TMPDIR == <<"{","{",".","T","M","P","D","I","R","}","}">>
LIB == <<"l","i","b">>
TMP == <<"/","t","m","p">>

\* for ext, _ := range s.PhpExtensions, in the order exts:
\* block = block + "extension=" + ext + ".so\n"
RECURSIVE ExtensionBlock(_, _)
ExtensionBlock(block, exts) ==
    IF exts = << >> THEN block
    ELSE ExtensionBlock(block \o EXTENSION_EQ \o Head(exts) \o DOT_SO_NL, Tail(exts))

\* for ext, _ := range s.ZendExtensions, in the order exts:
\* block = block + "zend_extension=" + ext + "\n"
RECURSIVE ZendBlock(_, _)
ZendBlock(block, exts) ==
    IF exts = << >> THEN block
    ELSE ZendBlock(block \o ZEND_EXTENSION_EQ \o Head(exts) \o NL, Tail(exts))

\* ctxRun, with the extension maps ranged over in the orders given
CtxRun(stager, webDir, phpOrder, zendOrder) ==
    [DepsIdx |-> stager.depsIdx,
     PhpFpmConfInclude |-> << >>,
     PhpFpmListen |-> LISTEN,
     Webdir |-> webDir,
     HOME |-> TPL_HOME,
     DEPS_DIR |-> TPL_DEPS_DIR,
     TMPDIR |-> TPL_TMPDIR,
     Libdir |-> LIB,
     PhpExtensions |-> ExtensionBlock(<< >>, phpOrder),
     ZendExtensions |-> ZendBlock(<< >>, zendOrder)]

\* CtxStage, were TMPDIR left as copied from ctxRun
CtxStageSharedTmpdir(run, stager) ==
    [run EXCEPT !.DEPS_DIR = stager.depsDir,
                !.HOME = stager.buildDir,
                !.PhpExtensions = run.PhpExtensions \o EXTENSION_EQ \o OPENSSL \o DOT_SO_NL]

\* CtxStage, were the openssl directive not appended
CtxStageNoOpenssl(run, stager) ==
    [run EXCEPT !.DEPS_DIR = stager.depsDir,
                !.HOME = stager.buildDir,
                !.TMPDIR = TMP]

\* ctxStage: a copy of ctxRun with four keys reassigned
CtxStage(run, stager) ==
    [run EXCEPT !.DEPS_DIR = stager.depsDir,
                !.HOME = stager.buildDir,
                !.TMPDIR = TMP,
                !.PhpExtensions = run.PhpExtensions \o EXTENSION_EQ \o OPENSSL \o DOT_SO_NL]

(***************************************************************************)
(* WriteConfigFiles: the handler that renders one template file           *)
(***************************************************************************)

AT_DEPS_DIR == <<"@","{","D","E","P","S","_","D","I","R","}">>
AT_TMPDIR == <<"@","{","T","M","P","D","I","R","}">>
AT_HOME == <<"@","{","H","O","M","E","}">>
HASH_PHP_FPM_LISTEN == <<"#","P","H","P","_","F","P","M","_","L","I","S","T","E","N">>
TPL_PHP_FPM_LISTEN == <<"{","{",".","P","h","p","F","p","m","L","i","s","t","e","n","}","}">>

\* LegacyRewrite without the @{TMPDIR} replacement
LegacyRewriteNoTmpdir(templateString) ==
    Replace(Replace(Replace(templateString,
                            AT_DEPS_DIR, TPL_DEPS_DIR),
                    AT_HOME, TPL_HOME),
            HASH_PHP_FPM_LISTEN, TPL_PHP_FPM_LISTEN)

\* The four strings.Replace calls on the template's text
LegacyRewrite(templateString) ==
    Replace(Replace(Replace(Replace(templateString,
                                    AT_DEPS_DIR, TPL_DEPS_DIR),
                            AT_TMPDIR, TPL_TMPDIR),
                    AT_HOME, TPL_HOME),
            HASH_PHP_FPM_LISTEN, TPL_PHP_FPM_LISTEN)

\* text/template, as far as it is modelled: text, and actions whose
\* pipeline is one command whose operands are the dot or chains of fields,
\* with spaces between them and trim markers around them ({{.}},
\* {{.Name}}, {{ .A.B }}, {{- .Name -}}), names being of ASCII letters,
\* digits and the underscore.  Comments, variables, functions, pipes,
\* parentheses, literals, control structures and characters beyond ASCII
\* are outside the model: of an action that uses them the model says
\* nothing, which Unmodelled stands for.
Unmodelled == "unmodelled"

\* The index of the first {{ of s, 0 when there is none
OpenAt(s) ==
    IF \E i \in 1..(Len(s) - 1) : s[i] = "{" /\ s[i + 1] = "{"
    THEN CHOOSE i \in 1..(Len(s) - 1) :
             /\ s[i] = "{" /\ s[i + 1] = "{"
             /\ \A j \in 1..(i - 1) : ~(s[j] = "{" /\ s[j + 1] = "{")
    ELSE 0

\* isSpace
Space == {" ", "\t", "\r", "\n"}

\* The ASCII characters isAlphaNumeric holds of: the underscore, letters
\* and digits.  Of the letters and digits beyond ASCII nothing is said: an
\* action that holds one is not modelled.
AsciiLetters ==
    {"A","B","C","D","E","F","G","H","I","J","K","L","M","N","O","P","Q","R","S","T",
     "U","V","W","X","Y","Z","a","b","c","d","e","f","g","h","i","j","k","l","m","n",
     "o","p","q","r","s","t","u","v","w","x","y","z","_"}
AsciiAlphaNumeric == AsciiLetters \cup Digits

\* The characters of the actions that are modelled.  None of them opens a
\* string, a comment or a character constant, so that the first }} after
\* them is where the lexer is at the right delimiter.
ActionChars == Space \cup AsciiAlphaNumeric \cup {".", "-"}

\* What CloseAt answers when the action is not one of the modelled ones
NotModelledAt == -1

\* The index of the first }} of s at or after from
FirstClose(s, from) ==
    CHOOSE i \in from..(Len(s) - 1) :
        /\ s[i] = "}" /\ s[i + 1] = "}"
        /\ \A j \in from..(i - 1) : ~(s[j] = "}" /\ s[j + 1] = "}")

\* The index of the right delimiter of the action whose text begins at
\* from: 0 when no }} follows, which leaves the action unclosed whatever it
\* holds, and NotModelledAt when characters outside ActionChars come first
CloseAt(s, from) ==
    IF ~\E i \in from..(Len(s) - 1) : s[i] = "}" /\ s[i + 1] = "}" THEN 0
    ELSE IF \E j \in from..(FirstClose(s, from) - 1) : s[j] \notin ActionChars
    THEN NotModelledAt
    ELSE FirstClose(s, from)

\* How many of the first characters of s are in chars
RECURSIVE Leading(_, _)
Leading(s, chars) ==
    IF s = << >> \/ s[1] \notin chars THEN 0 ELSE 1 + Leading(Tail(s), chars)

\* s without its first n characters
Drop(s, n) == SubSeq(s, n + 1, Len(s))

TrimLeft(s) == Drop(s, Leading(s, Space))

RECURSIVE TrimRight(_)
TrimRight(s) ==
    IF s # << >> /\ s[Len(s)] \in Space THEN TrimRight(SubSeq(s, 1, Len(s) - 1)) ELSE s

\* The text between the left delimiter at i and the right delimiter at c
Inner(s, i, c) == SubSeq(s, i + 2, c - 1)

\* hasLeftTrimMarker: {{ is followed by a minus sign and a space
TrimsLeft(inner) == Len(inner) >= 2 /\ inner[1] = "-" /\ inner[2] \in Space

\* hasRightTrimMarker: a space and a minus sign come before }}
TrimsRight(inner) ==
    Len(inner) >= 2 /\ inner[Len(inner)] = "-" /\ inner[Len(inner) - 1] \in Space

\* inner without its trim markers
Unmarked(inner) == IF TrimsLeft(inner) THEN Drop(inner, 2) ELSE inner
Body(inner) ==
    IF TrimsRight(Unmarked(inner))
    THEN SubSeq(Unmarked(inner), 1, Len(Unmarked(inner)) - 2)
    ELSE Unmarked(inner)

\* An item of the lexer
Token(typ, val) == [typ |-> typ, val |-> val]

\* lexInsideAction: the items of the body of an action, up to the first
\* error item, or the first character that begins none of spaces, a dot
\* or a field
RECURSIVE LexAction(_)
\* lexField on s, which begins with a period followed by n alphanumerics.
\* A minus sign next is no terminator: the bad character ends the lexing
\* with an error item, and neither the dot nor the field is emitted
LexField(s, n) ==
    IF Len(s) > n + 1 /\ s[n + 2] = "-" THEN <<Token("error", << >>)>>
    ELSE IF n = 0 THEN <<Token("dot", << >>)>> \o LexAction(Tail(s))
    ELSE <<Token("field", SubSeq(s, 2, n + 1))>> \o LexAction(Drop(s, n + 1))
LexAction(s) ==
    IF s = << >> THEN << >>
    ELSE IF s[1] \in Space
    THEN <<Token("space", << >>)>> \o LexAction(TrimLeft(s))
    ELSE IF s[1] = "." /\ ~(Len(s) >= 2 /\ s[2] \in Digits)
    THEN LexField(s, Leading(Tail(s), AsciiAlphaNumeric))
    ELSE <<Token(Unmodelled, << >>)>>

\* What the parser makes of a command: "ok" with its operands, each the
\* names of a chain of fields (none: the dot), "error", or Unmodelled
Parsed(status, ops) == [status |-> status, ops |-> ops]

\* Tree.command on the items toks, ops being the operands so far, open
\* whether the last of them is followed by no space yet
RECURSIVE Command(_, _, _)
Command(toks, ops, open) ==
    IF toks = << >> THEN Parsed(IF ops # << >> THEN "ok" ELSE "error", ops)
    ELSE IF toks[1].typ = Unmodelled THEN Parsed(Unmodelled, << >>)
    ELSE IF toks[1].typ = "error" THEN Parsed("error", << >>)
    ELSE IF toks[1].typ = "space" THEN Command(Tail(toks), ops, FALSE)
    ELSE IF toks[1].typ = "dot" /\ ~open
    THEN Command(Tail(toks), Append(ops, << >>), TRUE)
    ELSE IF toks[1].typ = "field" /\ ~open
    THEN Command(Tail(toks), Append(ops, <<toks[1].val>>), TRUE)
    ELSE IF toks[1].typ = "field" /\ ops[Len(ops)] # << >>
    THEN Command(Tail(toks), [ops EXCEPT ![Len(ops)] = Append(@, toks[1].val)], TRUE)
    ELSE Parsed("error", << >>)

\* The command of the action that opens at i, its right delimiter being
\* where c says
ActionClosing(s, i, c) ==
    IF c = 0 THEN Parsed("error", << >>)
    ELSE IF c = NotModelledAt THEN Parsed(Unmodelled, << >>)
    ELSE Command(LexAction(Body(Inner(s, i, c))), << >>, FALSE)
ActionAt(s, i) == ActionClosing(s, i, CloseAt(s, i + 2))

\* The text after the right delimiter at c
AfterAction(s, c) == SubSeq(s, c + 2, Len(s))

\* template.Parse: "ok" when it returns no error, "error" when it returns
\* one, Unmodelled when the first action that is not accepted is outside
\* the model
RECURSIVE Parse(_)
ParseFrom(s, i) ==
    IF i = 0 THEN "ok"
    ELSE IF ActionAt(s, i).status = "ok" THEN Parse(AfterAction(s, CloseAt(s, i + 2)))
    ELSE ActionAt(s, i).status
Parse(s) == ParseFrom(s, OpenAt(s))

\* The keys of ctxRun and ctxStage, in the order fmt prints a map
CtxKeys ==
    <<<<"D","E","P","S","_","D","I","R">>,
      <<"D","e","p","s","I","d","x">>,
      <<"H","O","M","E">>,
      <<"L","i","b","d","i","r">>,
      <<"P","h","p","E","x","t","e","n","s","i","o","n","s">>,
      <<"P","h","p","F","p","m","C","o","n","f","I","n","c","l","u","d","e">>,
      <<"P","h","p","F","p","m","L","i","s","t","e","n">>,
      <<"T","M","P","D","I","R">>,
      <<"W","e","b","d","i","r">>,
      <<"Z","e","n","d","E","x","t","e","n","s","i","o","n","s">> >>

NO_VALUE == <<"<","n","o"," ","v","a","l","u","e",">">>

\* What .Name prints for a map[string]string: the value of the key, and
\* <no value> when the map has no such key
FieldValue(ctx, name) ==
    CASE name = <<"D","e","p","s","I","d","x">> -> ctx.DepsIdx
      [] name = <<"P","h","p","F","p","m","C","o","n","f","I","n","c","l","u","d","e">> -> ctx.PhpFpmConfInclude
      [] name = <<"P","h","p","F","p","m","L","i","s","t","e","n">> -> ctx.PhpFpmListen
      [] name = <<"W","e","b","d","i","r">> -> ctx.Webdir
      [] name = <<"H","O","M","E">> -> ctx.HOME
      [] name = <<"D","E","P","S","_","D","I","R">> -> ctx.DEPS_DIR
      [] name = <<"T","M","P","D","I","R">> -> ctx.TMPDIR
      [] name = <<"L","i","b","d","i","r">> -> ctx.Libdir
      [] name = <<"P","h","p","E","x","t","e","n","s","i","o","n","s">> -> ctx.PhpExtensions
      [] name = <<"Z","e","n","d","E","x","t","e","n","s","i","o","n","s">> -> ctx.ZendExtensions
      [] OTHER -> NO_VALUE

\* What the dot prints: the map as fmt prints it, keys sorted
MapString(ctx) ==
    <<"m","a","p","[">>
    \o Join([k \in 1..Len(CtxKeys) |-> CtxKeys[k] \o <<":">> \o FieldValue(ctx, CtxKeys[k])],
            <<" ">>)
    \o <<"]">>

\* What Execute comes to: "ok" when it returns no error and "error" when
\* it returns one, and what it has written by then
Executed(status, out) == [status |-> status, out |-> out]

\* evalCommand on the operands ops.  Neither the dot nor a key of a map
\* takes arguments; a field of a string cannot be evaluated; a field of a
\* missing key is as missing as the key.
ActionValue(ops, ctx) ==
    IF ops[1] = << >>
    THEN (IF Len(ops) > 1 THEN Executed("error", << >>)
          ELSE Executed("ok", MapString(ctx)))
    ELSE IF Len(ops[1]) = 1
    THEN (IF Len(ops) > 1 THEN Executed("error", << >>)
          ELSE Executed("ok", FieldValue(ctx, ops[1][1])))
    ELSE IF ops[1][1] \in Range(CtxKeys) THEN Executed("error", << >>)
    ELSE Executed("ok", NO_VALUE)

\* The text before the action that opens at i and closes at c, and the
\* text after it, as the trim markers of the action leave them
TextBefore(s, i, c) ==
    IF TrimsLeft(Inner(s, i, c)) THEN TrimRight(SubSeq(s, 1, i - 1))
    ELSE SubSeq(s, 1, i - 1)
TextAfter(s, i, c) ==
    IF TrimsRight(Unmarked(Inner(s, i, c))) THEN TrimLeft(AfterAction(s, c))
    ELSE AfterAction(s, c)

\* out, then what rest comes to
Then(out, rest) == Executed(rest.status, out \o rest.out)

\* state.walk on a template Parse accepted: the text and the value of
\* every action are written in order, each by a Write of its own, up to the
\* first action that fails
RECURSIVE WalkNodes(_, _)
\* The action that opens at i and closes at c has come to value
ExecuteAction(s, ctx, i, c, value) ==
    IF value.status # "ok" THEN Executed("error", TextBefore(s, i, c))
    ELSE Then(TextBefore(s, i, c) \o value.out, WalkNodes(TextAfter(s, i, c), ctx))
ExecuteFrom(s, ctx, i) ==
    IF i = 0 THEN Executed("ok", s)
    ELSE ExecuteAction(s, ctx, i, CloseAt(s, i + 2), ActionValue(ActionAt(s, i).ops, ctx))
WalkNodes(s, ctx) == ExecuteFrom(s, ctx, OpenAt(s))

\* Execute, which the handler calls on what Parse accepted and on nothing
\* else
Execute(s, ctx) ==
    IF Parse(s) = "ok" THEN WalkNodes(s, ctx) ELSE Executed(Unmodelled, << >>)

\* An output tree: the files written under a base directory, as pairs of a
\* path (its components) and the file's bytes
NoFiles == {}
Paths(tree) == {f[1] : f \in tree}
FileAt(tree, path) == (CHOOSE f \in tree : f[1] = path)[2]

\* os.Create and the writes that follow: the file at path holds content
WriteFile(tree, path, content) ==
    {f \in tree : f[1] # path} \cup {<<path, content>>}

\* A template file of a tree: its path below the tree's root and its text
TemplateFile(rel, text) == [rel |-> rel, text |-> text]

\* A directory of templates as a walk finds it: whether it is there (or
\* cannot be looked at), and its files in the order the walk visits them
Dir(stat, tree) == [stat |-> stat, tree |-> tree]
AbsentDir == Dir("absent", << >>)
ErrorDir == Dir("error", << >>)
PresentDir(tree) == Dir("present", tree)

ETC == <<"e","t","c">>
HTTPD == <<"h","t","t","p","d">>
CONF == <<"c","o","n","f">>

\* dest of the source with this name: "php/etc/" and "httpd/conf"
Dest(name) == IF name = "php" THEN <<PHP, ETC>> ELSE <<HTTPD, CONF>>

\* The box's directory php/<line>, and its directory httpd
DefaultDir(templates, line, name) ==
    IF name = "php"
    THEN IF \E d \in templates.php : d[1] = line
         THEN PresentDir((CHOOSE d \in templates.php : d[1] = line)[2])
         ELSE ErrorDir
    ELSE PresentDir(templates.httpd)

\* The directories .bp-config/php and .bp-config/httpd of the build dir
OverrideDir(templates, name) ==
    IF name = "php" THEN templates.overridePhp ELSE templates.overrideHttpd

\* One call of the walk function, or the error that ends a walk
Item(kind, dest, rel, text) == [kind |-> kind, dest |-> dest, rel |-> rel, text |-> text]

\* SourceItems, were only the first file of a directory visited
SourceItemsFirstOnly(dir, dest) ==
    IF dir.stat = "error" THEN <<Item("error", dest, << >>, << >>)>>
    ELSE IF dir.stat = "absent" \/ dir.tree = << >> THEN << >>
    ELSE <<Item("file", dest, dir.tree[1].rel, dir.tree[1].text)>>

\* What walking one source comes to: nothing for a directory that is not
\* there, an error for one that cannot be looked at, else a call per file
SourceItems(dir, dest) ==
    IF dir.stat = "error" THEN <<Item("error", dest, << >>, << >>)>>
    ELSE IF dir.stat = "absent" THEN << >>
    ELSE [i \in 1..Len(dir.tree) |-> Item("file", dest, dir.tree[i].rel, dir.tree[i].text)]

\* WalkItems, were the override directories walked before the box
WalkItemsOverridesFirst(templates, line, defaults, overrides) ==
    SourceItems(OverrideDir(templates, overrides[1]), Dest(overrides[1]))
    \o SourceItems(OverrideDir(templates, overrides[2]), Dest(overrides[2]))
    \o SourceItems(DefaultDir(templates, line, defaults[1]), Dest(defaults[1]))
    \o SourceItems(DefaultDir(templates, line, defaults[2]), Dest(defaults[2]))

\* The two loops over the sources: the box's directories in the order
\* defaults, then the override directories in the order overrides
WalkItems(templates, line, defaults, overrides) ==
    SourceItems(DefaultDir(templates, line, defaults[1]), Dest(defaults[1]))
    \o SourceItems(DefaultDir(templates, line, defaults[2]), Dest(defaults[2]))
    \o SourceItems(OverrideDir(templates, overrides[1]), Dest(overrides[1]))
    \o SourceItems(OverrideDir(templates, overrides[2]), Dest(overrides[2]))

SourceNames == {"php", "httpd"}

\* filepath.Join(dest, destFile), below a base directory
ItemPath(item) == item.dest \o item.rel

\* Basedirs, were the loop left after its first round
BasedirsFirstOnly(first) == <<first>>

\* The loop over the map of base directories, in the order the map gives:
\* DepDir with ctxRun ("run") and /tmp/php_etc with ctxStage ("stage")
Basedirs(first) == IF first = "run" THEN <<"run", "stage">> ELSE <<"stage", "run">>

Trees(run, stage) == [run |-> run, stage |-> stage]

\* The file at path of the tree below the base directory holds content
Written(trees, basedir, path, content) ==
    IF basedir = "run"
    THEN Trees(WriteFile(trees.run, path, content), trees.stage)
    ELSE Trees(trees.run, WriteFile(trees.stage, path, content))

\* tmplMessage.Execute with the context of the base directory
ExecuteIn(item, basedir, run, stage) ==
    Execute(LegacyRewrite(item.text), IF basedir = "run" THEN run ELSE stage)

\* What happens to a call of the handler from outside the template
Outcome(at, n, bytes) == [at |-> at, n |-> n, bytes |-> bytes]

\* How a call of the handler on item may end: well; with the walk having
\* found no FileInfo for the path, which info.IsDir() panics on; with the
\* error of reading the template; or with the error of MkdirAll, Create or
\* Execute in the n-th round of the loop over basedirs.  Execute fails from
\* outside when one of its Writes does, which leaves in the file the bytes
\* written until then, fewer than all: with nothing to write it calls no
\* Write.
HandlerOutcomes(item, run, stage, basedirs) ==
    {Outcome("none", 0, 0), Outcome("Lstat", 0, 0), Outcome("read", 0, 0)}
    \cup {Outcome(a, k, 0) : a \in {"MkdirAll", "Create"}, k \in 1..Len(basedirs)}
    \cup UNION {{Outcome("Execute", k, b) :
                    b \in 0..(Len(ExecuteIn(item, basedirs[k], run, stage).out) - 1)} :
                k \in 1..Len(basedirs)}

\* One round of the loop: MkdirAll, Create, Execute writing content, of
\* which at most one (fails) fails for a reason outside the template,
\* Execute after it has written as many bytes as bytes says
LoopBody(trees, basedir, path, content, fails, bytes) ==
    CASE fails = "none" -> Written(trees, basedir, path, content)
      [] fails = "Execute" -> Written(trees, basedir, path, SubSeq(content, 1, bytes))
      [] OTHER -> trees

HandlerEnd(e, trees) == [err |-> e, trees |-> trees]

\* The loop of the handler from its k-th round on
RECURSIVE HandlerLoop(_, _, _, _, _, _, _)
\* The k-th round, Execute coming to executed when nothing outside the
\* template fails
HandlerRound(item, run, stage, trees, basedirs, k, outcome, executed) ==
    IF outcome.n = k
    THEN HandlerEnd(<<outcome.at>>,
                    LoopBody(trees, basedirs[k], ItemPath(item), executed.out,
                             outcome.at, outcome.bytes))
    ELSE IF executed.status # "ok"
    THEN HandlerEnd(<<"Execute">>,
                    LoopBody(trees, basedirs[k], ItemPath(item), executed.out, "none", 0))
    ELSE HandlerLoop(item, run, stage,
                     LoopBody(trees, basedirs[k], ItemPath(item), executed.out, "none", 0),
                     basedirs, k + 1, outcome)
HandlerLoop(item, run, stage, trees, basedirs, k, outcome) ==
    IF k > Len(basedirs) THEN HandlerEnd(NoError, trees)
    ELSE HandlerRound(item, run, stage, trees, basedirs, k, outcome,
                      ExecuteIn(item, basedirs[k], run, stage))

\* HandlerResult, were the files written so far removed when a call fails
HandlerResultRollingBack(item, run, stage, trees, basedirs, outcome) ==
    IF outcome.at = "none" /\ Parse(LegacyRewrite(item.text)) = "ok"
    THEN HandlerLoop(item, run, stage, trees, basedirs, 1, outcome)
    ELSE HandlerEnd(<<"failed">>, Trees(NoFiles, NoFiles))

\* What the handler does not return, being a panic: the method call on the
\* nil FileInfo
Panic == <<"panic", "invalid memory address or nil pointer dereference">>

\* The handler after it has read the template and Parse has come to parsed
HandlerParsed(item, run, stage, trees, basedirs, outcome, parsed) ==
    IF parsed = "ok" THEN HandlerLoop(item, run, stage, trees, basedirs, 1, outcome)
    ELSE IF parsed = "error" THEN HandlerEnd(<<"Parse">>, trees)
    ELSE HandlerEnd(<<Unmodelled>>, trees)

\* The handler on one file: the error it returns and the trees it leaves
HandlerResult(item, run, stage, trees, basedirs, outcome) ==
    IF outcome.at = "Lstat" THEN HandlerEnd(Panic, trees)
    ELSE IF outcome.at = "read" THEN HandlerEnd(<<"read">>, trees)
    ELSE HandlerParsed(item, run, stage, trees, basedirs, outcome,
                       Parse(LegacyRewrite(item.text)))

\* The trees after the handler has run well on every one of items
RECURSIVE RenderAll(_, _, _, _, _)
RenderAll(items, run, stage, trees, first) ==
    IF items = << >> THEN trees
    ELSE RenderAll(Tail(items), run, stage,
                   HandlerResult(Head(items), run, stage, trees, Basedirs(first),
                                 Outcome("none", 0, 0)).trees,
                   first)

(***************************************************************************)
(* The world a staging run sees: the two declarative files, the            *)
(* environment, the manifest's PHP catalog and default, and the stager's   *)
(* directories.                                                            *)
(***************************************************************************)

MaxCatalog == 3
MaxLegacyLen == 2
MaxRequireKeys == 2

V721 == <<"7",".","2",".","1">>
V729 == <<"7",".","2",".","9">>
V730 == <<"7",".","3",".","0">>
V740 == <<"7",".","4",".","0">>
VersionUniverse == {V721, V729, V730, V740}

PHP_72_LATEST == <<"P","H","P","_","7","2","_","L","A","T","E","S","T">>
EMBEDDED_ALIAS == <<"x","P","H","P","_","7","3","_","L","A","T","E","S","T","!">>
ONE_DIGIT_ALIAS == <<"P","H","P","_","7","_","L","A","T","E","S","T">>
V56X == <<"5",".","6",".","x">>
V7X == <<"7",".","x">>
GE720 == <<">","=","7",".","2",".","0">>
GE560 == <<">","=","5",".","6",".","0">>
CARET72 == <<"^","7",".","2">>
INTL == <<"i","n","t","l">>
XDEBUG == <<"x","d","e","b","u","g">>
OPCACHE == <<"o","p","c","a","c","h","e">>
HTDOCS == <<"h","t","d","o","c","s">>
EXT_CURL == <<"e","x","t","-","c","u","r","l">>
EXT_PDO_MYSQL == <<"e","x","t","-","p","d","o","_","m","y","s","q","l">>
EXT_OPENSSL == <<"e","x","t","-","o","p","e","n","s","s","l">>
MONOLOG == <<"m","o","n","o","l","o","g","/","m","o","n","o","l","o","g">>
STAR == <<"*">>
SUB == <<"s","u","b">>
TOKEN == <<"t","o","k">>

\* A file: whether stat finds it, whether it decodes, and what it decodes to
File(stat, valid, json) == [stat |-> stat, valid |-> valid, json |-> json]
AbsentFile == File("absent", FALSE, NilMap)
ValidFile(json) == File("present", TRUE, json)
InvalidFile == File("present", FALSE, NilMap)
UnreadableFile == File("error", FALSE, NilMap)

Stager0 ==
    [buildDir |-> <<"/","t","m","p","/","a","p","p">>,
     depsDir |-> <<"/","t","m","p","/","d","e","p","s">>,
     depsIdx |-> <<"0">>]
Stager9 ==
    [buildDir |-> <<"/","h","o","m","e","/","v","c","a","p","/","a","p","p">>,
     depsDir |-> <<"/","h","o","m","e","/","v","c","a","p","/","d","e","p","s">>,
     depsIdx |-> <<"9">>]

\* What Manifest.DefaultVersion("php") returns
DefaultOk(v) == [err |-> FALSE, version |-> v]
DefaultErr == [err |-> TRUE, version |-> << >>]

\* The version lines of the box's php directories
LINE_72 == <<"7",".","2",".","x">>
LINE_73 == <<"7",".","3",".","x">>
LINE_74 == <<"7",".","4",".","x">>

PHP_INI == <<"p","h","p",".","i","n","i">>
PHP_FPM_CONF == <<"p","h","p","-","f","p","m",".","c","o","n","f">>
HTTPD_CONF == <<"h","t","t","p","d",".","c","o","n","f">>
EXTRA_INI == <<"e","x","t","r","a",".","i","n","i">>
EXTRA_CONF == <<"e","x","t","r","a",".","c","o","n","f">>

T_TMP == <<"t","=","@","{","T","M","P","D","I","R","}">>
T_ALL == <<"@","{","H","O","M","E","}","|","@","{","D","E","P","S","_","D","I","R","}","|","#","P","H","P","_","F","P","M","_","L","I","S","T","E","N">>
T_EXT == <<"{","{",".","P","h","p","E","x","t","e","n","s","i","o","n","s","}","}">>
T_BAD == <<"x","{","{">>
T_PLAIN == <<"o","k">>
T_OVERRIDE == <<"o","=","@","{","T","M","P","D","I","R","}">>
T_SPACED == <<"h","=","{","{"," ",".","H","O","M","E"," ","}","}">>
T_MISSING == <<"a","{","{",".","F","o","o","}","}","b">>
T_CHAIN == <<"a","{","{",".","H","O","M","E",".","x","}","}","b">>
T_OVERRIDE_HTTPD == <<"l","=","#","P","H","P","_","F","P","M","_","L","I","S","T","E","N">>

\* The templates of a world: the box's php directory of every version line
\* and its httpd directory, and the two override directories
Templates(php, httpd, overridePhp, overrideHttpd) ==
    [php |-> php, httpd |-> httpd, overridePhp |-> overridePhp,
     overrideHttpd |-> overrideHttpd]

\* A box with empty directories, and no override directory
NoTemplates ==
    Templates({<<LINE_72, << >> >>, <<LINE_73, << >> >>, <<LINE_74, << >> >>}, << >>,
              AbsentDir, AbsentDir)

World(options, composer, env, alt, catalog, def, stager, token) ==
    [options |-> options, composer |-> composer, composerPathEnv |-> env,
     altComposer |-> alt, catalog |-> catalog, default |-> def,
     stager |-> stager, token |-> token, github |-> "resources",
     templates |-> NoTemplates]

\* How the request of isComposerTokenValid ends: NewRequest fails, the
\* client fails, the body is not JSON, it is JSON without or with a
\* resources key
TokenResponses ==
    {"request error", "transport error", "undecodable body", "no resources", "resources"}

\* The world w, GitHub answering the token check with response
Answering(w, response) == [w EXCEPT !.github = response]

\* All sequences over S of length at most n
RECURSIVE SeqsUpTo(_, _)
SeqsUpTo(S, n) ==
    IF n = 0 THEN {<< >>}
    ELSE LET shorter == SeqsUpTo(S, n - 1)
         IN  shorter \cup {<<x>> \o q : x \in S, q \in {r \in shorter : Len(r) = n - 1}}

\* A catalog and its designated default: an entry of the catalog, or none
Manifests ==
    UNION {{<<c, d>> : d \in {DefaultErr} \cup {DefaultOk(v) : v \in c}} :
              c \in {c \in SUBSET VersionUniverse : Cardinality(c) <= MaxCatalog}}

\* options.json files that declare at most PHP_VERSION
VersionOptions ==
    {AbsentFile} \cup
    {ValidFile(MapOf({PHP_VERSION}, v)) :
        v \in {JStr(<< >>), JStr(PHP_72_LATEST), JStr(EMBEDDED_ALIAS),
               JStr(ONE_DIGIT_ALIAS), JStr(V730), JStr(V56X), JNum}}

\* composer.json files that declare at most require.php
VersionComposers ==
    {AbsentFile, ValidFile(NilMap)} \cup
    {ValidFile(MapOf({REQUIRE}, JObj(MapOf({PHP}, v)))) :
        v \in {JStr(<< >>), JStr(GE720), JStr(V7X), JStr(GE560), JStr(CARET72)}}

\* Worlds that vary the version sources and the manifest
VersionWorlds ==
    {World(o, c, << >>, AbsentFile, m[1], m[2], Stager0, << >>) :
        o \in VersionOptions, c \in VersionComposers,
        m \in Manifests}

\* options.json files that vary the two legacy arrays
LegacyOptions ==
    {ValidFile(php \cup zend) :
        php \in {NilMap, MapOf({PHP_EXTENSIONS}, JStr(CURL))} \cup
                {MapOf({PHP_EXTENSIONS}, JArr(a)) :
                    a \in SeqsUpTo({JStr(CURL), JStr(INTL), JNum}, MaxLegacyLen)},
        zend \in {NilMap} \cup
                 {MapOf({ZEND_EXTENSIONS}, JArr(a)) :
                    a \in SeqsUpTo({JStr(XDEBUG), JStr(OPCACHE)}, MaxLegacyLen)}}

\* composer.json files that vary the keys of require
RequireComposers ==
    {ValidFile(MapOf({REQUIRE}, JStr(STAR)))} \cup
    {ValidFile(MapOf({REQUIRE}, JObj(MapOf(keys, JStr(STAR))))) :
        keys \in {K \in SUBSET {EXT_CURL, EXT_PDO_MYSQL, EXT_PREFIX, MONOLOG} :
                     Cardinality(K) <= MaxRequireKeys}}

\* Worlds that vary the extension sources
ExtensionWorlds ==
    {World(o, c, << >>, AbsentFile, {V721, V729, V730}, DefaultOk(V729), Stager0, << >>) :
        o \in LegacyOptions,
        c \in {AbsentFile,
               ValidFile(MapOf({REQUIRE}, JObj(MapOf({EXT_PDO_MYSQL}, JStr(STAR)))))}}
    \cup
    {World(o, c, << >>, AbsentFile, {V721, V729, V730}, DefaultOk(V729), Stager0, << >>) :
        o \in {AbsentFile,
               ValidFile(MapOf({PHP_EXTENSIONS}, JArr(<< >>))),
               ValidFile(MapOf({PHP_EXTENSIONS}, JArr(<<JStr(INTL)>>))),
               ValidFile(MapOf({PHP_EXTENSIONS}, JArr(<<JStr(INTL), JStr(CURL)>>)))},
        c \in RequireComposers \cup
              {ValidFile(MapOf({REQUIRE}, JObj(MapOf(keys, JStr(STAR))))) :
                  keys \in {{EXT_OPENSSL}, {EXT_OPENSSL, EXT_CURL}}}}

\* Worlds that vary which files exist and decode, the environment and the
\* stager
FileWorlds ==
    {World(o, c, e[1], e[2], {V721, V729, V730}, DefaultOk(V729), st, tok) :
        o \in {AbsentFile, InvalidFile, UnreadableFile,
               ValidFile(MapOf({WEBDIR}, JStr(HTDOCS))),
               ValidFile(MapOf({WEBDIR}, JStr(HTDOCS)) \cup
                         MapOf({ZEND_EXTENSIONS}, JArr(<<JStr(XDEBUG)>>))),
               ValidFile(MapOf({WEBDIR}, JNum))},
        c \in {AbsentFile, InvalidFile, UnreadableFile,
               ValidFile(MapOf({REQUIRE}, JObj(MapOf({PHP}, JStr(V7X)))))},
        e \in {<<(<< >>), AbsentFile>>} \cup
              {<<SUB, f>> : f \in {AbsentFile, InvalidFile, UnreadableFile,
                                   ValidFile(MapOf({REQUIRE},
                                       JObj(MapOf({EXT_CURL}, JStr(STAR)))))}},
        st \in {Stager0, Stager9},
        tok \in {<< >>, TOKEN}}

\* Worlds that vary the answer to the token check
TokenWorlds ==
    {Answering(World(AbsentFile, c, << >>, AbsentFile, {V721, V729, V730}, DefaultOk(V729),
                     Stager0, TOKEN), response) :
        c \in {ValidFile(NilMap), ValidFile(MapOf({REQUIRE}, JObj(MapOf({EXT_CURL}, JStr(STAR)))))},
        response \in TokenResponses}

\* The world w with the templates t
Templated(w, t) == [w EXCEPT !.templates = t]

\* Boxes and override directories that vary what is rendered, what shadows
\* what, what cannot be parsed and what cannot be executed
TemplateSetsOf(phps) ==
    {Templates({<<LINE_72, php>>, <<LINE_73, <<TemplateFile(<<PHP_INI>>, T_MISSING)>> >>},
               <<TemplateFile(<<EXTRA_CONF>>, T_SPACED), TemplateFile(<<HTTPD_CONF>>, T_ALL)>>,
               overridePhp, overrideHttpd) :
        php \in phps,
        overridePhp \in {AbsentDir, ErrorDir, PresentDir(<< >>),
                         PresentDir(<<TemplateFile(<<EXTRA_INI>>, T_PLAIN),
                                      TemplateFile(<<PHP_INI>>, T_OVERRIDE)>>),
                         PresentDir(<<TemplateFile(<<PHP_FPM_CONF>>, T_BAD)>>)},
        overrideHttpd \in {AbsentDir, ErrorDir,
                           PresentDir(<<TemplateFile(<<HTTPD_CONF>>, T_OVERRIDE_HTTPD)>>),
                           PresentDir(<<TemplateFile(<<EXTRA_CONF>>, T_CHAIN)>>)}}

\* The box's directory of the 7.2 line: one file, two files of which one
\* prints the extensions, two files of which one cannot be parsed
PhpBox == <<TemplateFile(<<PHP_INI>>, T_TMP)>>
PhpBoxExtensions ==
    <<TemplateFile(<<PHP_FPM_CONF>>, T_PLAIN), TemplateFile(<<PHP_INI>>, T_EXT)>>
PhpBoxBad == <<TemplateFile(<<PHP_FPM_CONF>>, T_BAD), TemplateFile(<<PHP_INI>>, T_TMP)>>

TemplateSets == TemplateSetsOf({PhpBox, PhpBoxExtensions, PhpBoxBad})

\* A world of the catalog {7.2.1, 7.2.9, 7.3.0} that asks for the
\* extensions exts
WorldOf(exts, default, t) ==
    Templated(World(ValidFile(MapOf({PHP_EXTENSIONS}, JArr(exts))),
                    AbsentFile, << >>, AbsentFile, {V721, V729, V730}, DefaultOk(default),
                    Stager0, << >>), t)

\* Worlds that vary the templates: of the 7.2 line, whose directory of the
\* box varies, of the 7.3 line, and of a line the box has no directory for
TemplateWorlds ==
    {WorldOf(<<JStr(INTL), JStr(CURL)>>, V729, t) : t \in TemplateSetsOf({PhpBoxExtensions})}
    \cup {WorldOf(<<JStr(INTL)>>, V729, t) : t \in TemplateSetsOf({PhpBox, PhpBoxBad})}
    \cup {WorldOf(<<JStr(INTL)>>, V730, t) : t \in TemplateSetsOf({PhpBox})}
    \cup
    {Templated(World(AbsentFile, AbsentFile, << >>, AbsentFile, {V740}, DefaultOk(V740),
                     Stager9, << >>), t) :
        t \in {ts \in TemplateSetsOf({PhpBox}) : ts.overridePhp = AbsentDir}}

Worlds ==
    VersionWorlds \cup ExtensionWorlds \cup FileWorlds \cup TokenWorlds \cup TemplateWorlds

(***************************************************************************)
(* The state: the world, the Supplier's fields, Run's position and result, *)
(* the logger's output, and the two contexts WriteConfigFiles builds.      *)
(***************************************************************************)

VARIABLES
    world,                  \* the files, environment, manifest and stager
    pc,                     \* the step Run is about to call, "done", "failed", "panicked"
    err,                    \* the error Run has returned (NoError: none)
    log,                    \* the warnings, errors and steps logged so far
    calls,                  \* the steps Run has called, in order
    commands,               \* the commands RunComposer has run, in order
    OptionsJson,
    ComposerJson,
    ComposerPath,
    ComposerGithubToken,
    WebDir,
    PhpVersion,
    candidate,              \* PhpVersion as SetupPhpVersion hands it to the matcher
    PhpExtensions,
    ZendExtensions,
    ctxRun,                 \* WriteConfigFiles' ctxRun, while it runs
    ctxStage,               \* WriteConfigFiles' ctxStage, while it runs
    pending,                \* the calls of the walk function still to come
    visited,                \* the calls of the walk function that returned nil
    runTree,                \* the files written below DepDir
    stageTree               \* the files written below /tmp/php_etc

vars == <<world, pc, err, log, calls, commands, OptionsJson, ComposerJson,
          ComposerPath, ComposerGithubToken, WebDir, PhpVersion, candidate,
          PhpExtensions, ZendExtensions, ctxRun, ctxStage,
          pending, visited, runTree, stageTree>>

walk == <<pending, visited, runTree, stageTree>>

supplier == <<OptionsJson, ComposerJson, ComposerPath, ComposerGithubToken,
              WebDir, PhpVersion, candidate, PhpExtensions, ZendExtensions>>

NoContext == << >>

\* A freshly constructed Supplier in some world, Run not yet called
Init ==
    /\ world \in Worlds
    /\ pc = "Run"
    /\ err = NoError
    /\ log = << >>
    /\ calls = << >>
    /\ commands = << >>
    /\ OptionsJson = NilMap
    /\ ComposerJson = NilMap
    /\ ComposerPath = << >>
    /\ ComposerGithubToken = << >>
    /\ WebDir = << >>
    /\ PhpVersion = << >>
    /\ candidate = << >>
    /\ PhpExtensions = {}
    /\ ZendExtensions = {}
    /\ ctxRun = NoContext
    /\ ctxStage = NoContext
    /\ pending = << >>
    /\ visited = << >>
    /\ runTree = NoFiles
    /\ stageTree = NoFiles

\* Run returns e
Fail(e) == pc' = "failed" /\ err' = e

\* Run goes on to step next
Goto(next) == pc' = next /\ err' = err

\* Run is entered: the step is logged and the token read from the environment
RunBegin ==
    /\ pc = "Run"
    /\ log' = Append(log, Entry("step", "Supplying php"))
    /\ ComposerGithubToken' = world.token
    /\ Goto("ReadConfig")
    /\ UNCHANGED <<world, calls, commands, OptionsJson, ComposerJson, ComposerPath,
                   WebDir, PhpVersion, candidate, PhpExtensions, ZendExtensions,
                   ctxRun, ctxStage, walk>>

\* Run calls ReadConfig, which ends as r says
ReadConfigReturns(r) ==
    /\ OptionsJson' = r.OptionsJson
    /\ WebDir' = r.WebDir
    /\ ComposerPath' = r.ComposerPath
    /\ ComposerJson' = r.ComposerJson
    /\ log' = log \o r.log
    /\ IF r.err # NoError
       THEN Fail(Wrap("reading config", r.err))
       ELSE Goto("SetupPhpVersion")

ReadConfig ==
    /\ pc = "ReadConfig"
    /\ calls' = Append(calls, "ReadConfig")
    /\ ReadConfigReturns(ReadConfigResult(world, OptionsJson, WebDir, ComposerPath, ComposerJson))
    /\ UNCHANGED <<world, commands, ComposerGithubToken, PhpVersion, candidate,
                   PhpExtensions, ZendExtensions, ctxRun, ctxStage, walk>>

\* What SetupPhpVersion logs, given PhpVersion after the options.json
\* block (v1) and the outcome of the matching block (m)
SetupPhpVersionLog(composerJson, v1, m) ==
    (IF PrecedenceWarning(composerJson, v1)
     THEN <<Entry("warning", "A version of PHP has been specified in both composer.json and ./bp-config/options.json."),
            Entry("warning", "The version defined in composer.json will be used.")>>
     ELSE << >>)
    \o (IF m.warned
        THEN <<Entry("warning", "PHP version not available, using default version.")>>
        ELSE << >>)

\* What SetupPhpVersion leaves in PhpVersion, logs and returns: the four
\* blocks in sequence, v1, v2 and m being PhpVersion after the first three
SetupPhpVersionEnd(composerJson, v1, v2, m, d) ==
    [candidate |-> v2, PhpVersion |-> d.PhpVersion, err |-> d.err,
     log |-> SetupPhpVersionLog(composerJson, v1, m)]
SetupPhpVersionDefault(composerJson, v1, v2, m, def) ==
    SetupPhpVersionEnd(composerJson, v1, v2, m, DefaultVersion(m.PhpVersion, def))
\* SetupPhpVersionMatch, were the options.json version (v1) tried again
\* when the composer.json version (v2) matches nothing
SetupPhpVersionMatchRetrying(composerJson, v1, v2, versions, def) ==
    SetupPhpVersionDefault(composerJson, v1, v2,
        IF v1 # << >> /\ MatchVersion(v2, versions).PhpVersion = << >>
        THEN MatchVersion(v1, versions) ELSE MatchVersion(v2, versions),
        def)
SetupPhpVersionMatch(composerJson, v1, v2, versions, def) ==
    SetupPhpVersionDefault(composerJson, v1, v2, MatchVersion(v2, versions), def)
SetupPhpVersionComposer(composerJson, v1, versions, def) ==
    SetupPhpVersionMatch(composerJson, v1, ComposerVersion(composerJson, v1), versions, def)
SetupPhpVersionResult(optionsJson, composerJson, phpVersion, versions, def) ==
    SetupPhpVersionComposer(composerJson, OptionsVersion(optionsJson, phpVersion),
                            versions, def)

\* Run calls SetupPhpVersion, which ends as r says
SetupPhpVersionReturns(r) ==
    /\ candidate' = r.candidate
    /\ PhpVersion' = r.PhpVersion
    /\ log' = log \o r.log
    /\ IF r.err # NoError
       THEN Fail(Wrap("Initialiizing: php version", r.err))
       ELSE Goto("SetupExtensions")

SetupPhpVersion ==
    /\ pc = "SetupPhpVersion"
    /\ calls' = Append(calls, "SetupPhpVersion")
    /\ SetupPhpVersionReturns(SetupPhpVersionResult(OptionsJson, ComposerJson, PhpVersion,
                                                    world.catalog, world.default))
    /\ UNCHANGED <<world, commands, OptionsJson, ComposerJson, ComposerPath,
                   ComposerGithubToken, WebDir, PhpExtensions, ZendExtensions,
                   ctxRun, ctxStage, walk>>

\* The three blocks of SetupExtensions that write s.PhpExtensions: the
\* built-in defaults are assigned, a PHP_EXTENSIONS array (legacy) replaces
\* the set, and the require keys are added in the order keys
TierDefaults(set) == BuiltinExtensions
TierOptions(set, legacy) == LegacyExtensions(set, legacy)
TierComposer(set, keys) == RequireLoop(set, keys)

\* s.PhpExtensions after SetupExtensions
PhpExtensionsFrom(legacy, keys) ==
    TierComposer(TierOptions(TierDefaults({}), legacy), keys)
PhpExtensionsResult(optionsJson, keys) ==
    PhpExtensionsFrom(Lookup(optionsJson, PHP_EXTENSIONS), keys)

\* s.ZendExtensions after SetupExtensions
ZendExtensionsResult(optionsJson) ==
    LegacyExtensions({}, Lookup(optionsJson, ZEND_EXTENSIONS))

SetupExtensions ==
    /\ pc = "SetupExtensions"
    /\ calls' = Append(calls, "SetupExtensions")
    /\ \E keys \in Orders(Keys(Require(ComposerJson))) :
           PhpExtensions' = PhpExtensionsResult(OptionsJson, keys)
    /\ ZendExtensions' = ZendExtensionsResult(OptionsJson)
    /\ log' = IF Lookup(OptionsJson, PHP_EXTENSIONS).t = "array"
              THEN Append(log, Entry("warning", "PHP_EXTENSIONS in options.json is deprecated."))
              ELSE log
    /\ Goto("InstallHTTPD")
    /\ UNCHANGED <<world, commands, OptionsJson, ComposerJson, ComposerPath,
                   ComposerGithubToken, WebDir, PhpVersion, candidate,
                   ctxRun, ctxStage, walk>>

\* InstallHTTPD: the manifest installs httpd, bin and lib are linked, and
\* apachectl is read, rewritten and written back; any of these may fail
InstallHTTPDErrors ==
    {<<"InstallOnlyVersion httpd failed">>, <<"LinkDirectoryInDepDir failed">>,
     <<"ReadFile apachectl failed">>, <<"WriteFile apachectl failed">>}

InstallHTTPD ==
    /\ pc = "InstallHTTPD"
    /\ calls' = Append(calls, "InstallHTTPD")
    /\ \E e \in {NoError} \cup InstallHTTPDErrors :
           IF e # NoError THEN Fail(Wrap("Installing HTTPD", e)) ELSE Goto("InstallPHP")
    /\ UNCHANGED <<world, log, commands, supplier, ctxRun, ctxStage, walk>>

\* InstallPHP: the manifest installs php at PhpVersion, bin and lib are linked
InstallPHPErrors ==
    {<<"InstallDependency php failed">>, <<"LinkDirectoryInDepDir failed">>}

InstallPHP ==
    /\ pc = "InstallPHP"
    /\ calls' = Append(calls, "InstallPHP")
    /\ \E e \in {NoError} \cup InstallPHPErrors :
           IF e # NoError THEN Fail(Wrap("Installing PHP", e)) ELSE Goto("WriteConfigFiles")
    /\ UNCHANGED <<world, log, commands, supplier, ctxRun, ctxStage, walk>>

\* AfterWriteConfigFiles, were the composer steps called whatever ComposerPath
AfterWriteConfigFilesAlwaysComposer == "InstallComposer"

\* The step Run calls after WriteConfigFiles
AfterWriteConfigFiles ==
    IF ComposerPath # << >> THEN "InstallComposer" ELSE "InstallVarify"

\* WriteConfigFiles, first half: the two contexts are built, the extension
\* maps ranged over in some order; the maps of sources will be ranged over
\* in some order too
WriteConfigFiles ==
    /\ pc = "WriteConfigFiles"
    /\ calls' = Append(calls, "WriteConfigFiles")
    /\ log' = Append(log, Entry("step", "Write config files"))
    /\ \E phpOrder \in Orders(PhpExtensions), zendOrder \in Orders(ZendExtensions) :
           /\ ctxRun' = CtxRun(world.stager, WebDir, phpOrder, zendOrder)
           /\ ctxStage' = CtxStage(ctxRun', world.stager)
    /\ \E defaults \in Orders(SourceNames), overrides \in Orders(SourceNames) :
           pending' = WalkItems(world.templates, versionLine(PhpVersion), defaults, overrides)
    /\ visited' = << >>
    /\ Goto("WriteConfigFiles.walk")
    /\ UNCHANGED <<world, commands, supplier, runTree, stageTree>>

\* WriteConfigFiles returns e, and Run returns it
WalkFails(e) ==
    /\ log' = Append(log, Entry("error", "Error writing config files"))
    /\ Fail(e)
    /\ UNCHANGED <<ctxRun, ctxStage, pending, visited>>

\* The walk function has returned nil for the head of pending
WalkGoesOn ==
    /\ pending' = Tail(pending)
    /\ visited' = Append(visited, Head(pending))
    /\ UNCHANGED <<pc, err, log, ctxRun, ctxStage>>

\* The walk function panics, and the program with it: Run never returns
HandlerPanics ==
    /\ pc' = "panicked"
    /\ UNCHANGED <<err, log, ctxRun, ctxStage, pending, visited>>

\* The walk function was called on a file, and ends as r says
HandlerReturns(r) ==
    /\ r.err # <<Unmodelled>>
    /\ runTree' = r.trees.run
    /\ stageTree' = r.trees.stage
    /\ IF r.err = Panic THEN HandlerPanics
       ELSE IF r.err # NoError THEN WalkFails(r.err)
       ELSE WalkGoesOn

\* Every walk is over: WriteConfigFiles returns nil
WalkEnds ==
    /\ Goto(AfterWriteConfigFiles)
    /\ ctxRun' = NoContext
    /\ ctxStage' = NoContext
    /\ UNCHANGED <<log, pending, visited, runTree, stageTree>>

\* WriteConfigFiles, second half: one step of the walks over the template
\* trees, which end at the first error
WriteConfigFilesWalk ==
    /\ pc = "WriteConfigFiles.walk"
    /\ IF pending = << >> THEN WalkEnds
       ELSE IF Head(pending).kind = "error"
       THEN WalkFails(<<"walk">>) /\ UNCHANGED <<runTree, stageTree>>
       ELSE \E first \in {"run", "stage"} :
            \E outcome \in HandlerOutcomes(Head(pending), ctxRun, ctxStage, Basedirs(first)) :
                HandlerReturns(HandlerResult(Head(pending), ctxRun, ctxStage,
                                             Trees(runTree, stageTree),
                                             Basedirs(first), outcome))
    /\ UNCHANGED <<world, calls, commands, supplier>>

\* InstallComposer: exactly one composer version is expected, and fetched.
\* The step is logged once the version is known, before the fetch; Run logs
\* the error either call returns
InstallComposerErrors ==
    {<<"expected 1 version of composer">>, <<"FetchDependency composer failed">>}

InstallComposerLog(e) ==
    IF e = <<"expected 1 version of composer">> THEN << >>
    ELSE <<Entry("step", "Installing composer")>>

InstallComposer ==
    /\ pc = "InstallComposer"
    /\ calls' = Append(calls, "InstallComposer")
    /\ \E e \in {NoError} \cup InstallComposerErrors :
           IF e # NoError
           THEN /\ log' = log \o InstallComposerLog(e)
                            \o <<Entry("error", "Failed to install composer")>>
                /\ Fail(e)
           ELSE /\ log' = log \o InstallComposerLog(e)
                /\ Goto("RunComposer")
    /\ UNCHANGED <<world, commands, supplier, ctxRun, ctxStage, walk>>

\* isComposerTokenValid: whether the token is valid, and what is logged
isComposerTokenValid(response) ==
    [valid |-> response = "resources",
     log |-> CASE response = "request error" -> <<Entry("error", "NewRequest")>>
               [] response = "transport error" -> <<Entry("error", "client.Do")>>
               [] response = "undecodable body" -> <<Entry("error", "parse json")>>
               [] OTHER -> << >>]

\* A command RunComposer has run, and the error Command.Run returned
Ran(cmd, e) == [cmd |-> cmd, err |-> e]

\* The error of a command that fails
CommandFailed(cmd) == <<"composer " \o cmd \o " failed">>

\* isComposerTokenValid, were a token that is not valid an error
\* of RunComposer
RunComposerResultStrict(token, check, configOk, installOk) ==
    IF token # << >> /\ ~check.valid
    THEN [commands |-> << >>,
          log |-> <<Entry("step", "Running composer")>> \o check.log,
          err |-> <<"invalid token">>]
    ELSE [commands |-> <<Ran("install", IF installOk THEN NoError ELSE CommandFailed("install"))>>,
          log |-> <<Entry("step", "Running composer")>>,
          err |-> IF installOk THEN NoError ELSE CommandFailed("install")]

\* What RunComposer runs, logs and returns, given the outcome of the token
\* check (when there is a token) and whether each command succeeds
RunComposerResult(token, check, configOk, installOk) ==
    IF token # << >> /\ check.valid /\ ~configOk
    THEN [commands |-> <<Ran("config", CommandFailed("config"))>>,
          log |-> <<Entry("step", "Running composer")>> \o check.log
                  \o <<Entry("step", "Using custom GitHub OAuth token in $COMPOSER_GITHUB_OAUTH_TOKEN")>>,
          err |-> CommandFailed("config")]
    ELSE [commands |-> (IF token # << >> /\ check.valid
                        THEN <<Ran("config", NoError)>> ELSE << >>)
                       \o <<Ran("install", IF installOk THEN NoError
                                                        ELSE CommandFailed("install"))>>,
          log |-> <<Entry("step", "Running composer")>>
                  \o (IF token = << >> THEN << >>
                      ELSE IF check.valid
                      THEN check.log \o <<Entry("step", "Using custom GitHub OAuth token in $COMPOSER_GITHUB_OAUTH_TOKEN")>>
                      ELSE check.log \o <<Entry("step", "The GitHub OAuth token supplied from $COMPOSER_GITHUB_OAUTH_TOKEN is invalid")>>),
          err |-> IF installOk THEN NoError ELSE CommandFailed("install")]

\* Run calls RunComposer, which ends as r says
RunComposerReturns(r) ==
    /\ commands' = commands \o r.commands
    /\ IF r.err # NoError
       THEN /\ log' = (log \o r.log) \o <<Entry("error", "Failed to run composer")>>
            /\ Fail(r.err)
       ELSE /\ log' = log \o r.log
            /\ Goto("InstallVarify")

RunComposer ==
    /\ pc = "RunComposer"
    /\ calls' = Append(calls, "RunComposer")
    /\ \E configOk \in (IF ComposerGithubToken # << >> /\ world.github = "resources"
                        THEN BOOLEAN ELSE {TRUE}),
          installOk \in BOOLEAN :
           RunComposerReturns(RunComposerResult(ComposerGithubToken,
                                                isComposerTokenValid(world.github),
                                                configOk, installOk))
    /\ UNCHANGED <<world, supplier, ctxRun, ctxStage, walk>>

\* InstallVarify: nothing to do when bin/varify is there, else it is copied
InstallVarifyErrors == {<<"stat varify failed">>, <<"CopyFile varify failed">>}

InstallVarify ==
    /\ pc = "InstallVarify"
    /\ calls' = Append(calls, "InstallVarify")
    /\ \E e \in {NoError} \cup InstallVarifyErrors :
           IF e # NoError
           THEN /\ log' = Append(log, Entry("error", "Failed to copy verify"))
                /\ Fail(e)
           ELSE /\ log' = log
                /\ Goto("WriteProfileD")
    /\ UNCHANGED <<world, commands, supplier, ctxRun, ctxStage, walk>>

WriteProfileDErrors == {<<"stat php.ini.d failed">>, <<"WriteProfileD failed">>}

WriteProfileD ==
    /\ pc = "WriteProfileD"
    /\ calls' = Append(calls, "WriteProfileD")
    /\ \E e \in {NoError} \cup WriteProfileDErrors :
           IF e # NoError
           THEN /\ log' = log \o <<Entry("step", "Writing profile.d script"),
                                   Entry("error", "Failed to write profile.d")>>
                /\ Fail(e)
           ELSE /\ log' = Append(log, Entry("step", "Writing profile.d script"))
                /\ Goto("WriteStartFile")
    /\ UNCHANGED <<world, commands, supplier, ctxRun, ctxStage, walk>>

WriteStartFileErrors == {<<"WriteFile php_buildpack_start failed">>}

WriteStartFile ==
    /\ pc = "WriteStartFile"
    /\ calls' = Append(calls, "WriteStartFile")
    /\ \E e \in {NoError} \cup WriteStartFileErrors :
           IF e # NoError
           THEN /\ log' = log \o <<Entry("step", "Writing start script (php_buildpack_start)"),
                                   Entry("error", "Error writing start file")>>
                /\ Fail(e)
           ELSE /\ log' = Append(log, Entry("step", "Writing start script (php_buildpack_start)"))
                /\ Goto("done")
    /\ UNCHANGED <<world, commands, supplier, ctxRun, ctxStage, walk>>

Next ==
    \/ RunBegin
    \/ ReadConfig
    \/ SetupPhpVersion
    \/ SetupExtensions
    \/ InstallHTTPD
    \/ InstallPHP
    \/ WriteConfigFiles
    \/ WriteConfigFilesWalk
    \/ InstallComposer
    \/ RunComposer
    \/ InstallVarify
    \/ WriteProfileD
    \/ WriteStartFile

Spec == Init /\ [][Next]_vars

(***************************************************************************)
(* Vocabulary of the properties                                            *)
(***************************************************************************)

\* Run has called step (every step but WriteConfigFiles is one action, so
\* it has also returned)
Called(step) == step \in Range(calls)

\* Run returned the error of step
FailedAt(step) == pc = "failed" /\ calls # << >> /\ calls[Len(calls)] = step

\* step was called and returned nil
Succeeded(step) == Called(step) /\ ~FailedAt(step)

Logged(level, msg) == Entry(level, msg) \in Range(log)

\* The catalog entries that satisfy constraint c
MatchesOf(c) == {v \in world.catalog : Satisfies(v, c)}

\* PhpVersion is the highest catalog entry satisfying c when there is one,
\* else the catalog's default; with neither, SetupPhpVersion has failed
ResolvedAgainst(c) ==
    IF MatchesOf(c) # {}
    THEN /\ PhpVersion \in MatchesOf(c)
         /\ \A w \in MatchesOf(c) : ~VersionLess(VersionOf(PhpVersion), VersionOf(w))
    ELSE IF world.default.err
         THEN FailedAt("SetupPhpVersion")
         ELSE PhpVersion = world.default.version

\* The options file declares a non-empty version string
OptionsDeclared ==
    /\ world.options.stat = "present" /\ world.options.valid
    /\ \E p \in world.options.json :
           p[1] = PHP_VERSION /\ p[2].t = "string" /\ p[2].s # << >>

\* The version string the options file declares
OptionsValue == (CHOOSE p \in world.options.json : p[1] = PHP_VERSION)[2].s

\* The dependency file declares a non-empty require.php string
ComposerDeclared ==
    \E p \in ComposerJson :
        /\ p[1] = REQUIRE /\ p[2].t = "object"
        /\ \E q \in p[2].m : q[1] = PHP /\ q[2].t = "string" /\ q[2].s # << >>

\* The version string the dependency file declares
ComposerValue ==
    (CHOOSE q \in (CHOOSE p \in ComposerJson : p[1] = REQUIRE)[2].m : q[1] = PHP)[2].s

\* t is s with every >= turned into ~>
GeTranslated(s, t) ==
    /\ Len(t) = Len(s)
    /\ \A i \in 1..Len(s) :
           t[i] = IF s[i] = ">" /\ i < Len(s) /\ s[i + 1] = "=" THEN "~"
                  ELSE IF s[i] = "=" /\ i > 1 /\ s[i - 1] = ">" THEN ">"
                  ELSE s[i]

(***************************************************************************)
(* C1.  Once SetupPhpVersion has run with a non-empty candidate            *)
(* constraint, PhpVersion is the highest catalog entry that satisfies the  *)
(* constraint when at least one entry satisfies it, and the catalog's      *)
(* default version when none does.                                         *)
(***************************************************************************)
HighestMatchOrDefault ==
    (Called("SetupPhpVersion") /\ candidate # << >>) => ResolvedAgainst(candidate)

\* Scenario 1: PHP_72_LATEST against 7.2.1, 7.2.9, 7.3.0 resolves to 7.2.9,
\* which is not the default
HighestMatchWitness ==
    /\ pc = "done"
    /\ OptionsDeclared /\ OptionsValue = PHP_72_LATEST
    /\ world.catalog = {V721, V729, V730}
    /\ world.default = DefaultOk(V730)
    /\ PhpVersion = V729

(***************************************************************************)
(* C2.  The precedence warning is logged by SetupPhpVersion if and only if *)
(* both the options file and the dependency file declare a non-empty       *)
(* version; and when both do, the candidate is the dependency file's       *)
(* value (with >= turned into ~>) and PhpVersion is resolved against it    *)
(* alone.                                                                  *)
(***************************************************************************)
ComposerWinsWithWarning ==
    Called("SetupPhpVersion") =>
        /\ Logged("warning", "A version of PHP has been specified in both composer.json and ./bp-config/options.json.")
               <=> (OptionsDeclared /\ ComposerDeclared)
        /\ Logged("warning", "The version defined in composer.json will be used.")
               <=> (OptionsDeclared /\ ComposerDeclared)
        /\ (OptionsDeclared /\ ComposerDeclared) =>
               /\ GeTranslated(ComposerValue, candidate)
               /\ ResolvedAgainst(candidate)

\* options.json asks for 7.3.0, which the catalog has, composer.json for
\* >=7.2.0: the warning is logged and 7.2.9 is installed
ComposerWinsWitness ==
    /\ pc = "done"
    /\ OptionsDeclared /\ OptionsValue = V730
    /\ ComposerDeclared /\ ComposerValue = GE720
    /\ V730 \in world.catalog
    /\ PhpVersion = V729
    /\ Logged("warning", "The version defined in composer.json will be used.")

(***************************************************************************)
(* C3.  Alias expansion is idempotent.  When only the options file         *)
(* declares a version, the candidate SetupPhpVersion matches with is       *)
(* <d>.<d>.x for a value PHP_<d><d>_LATEST, is the value itself for a      *)
(* dotted version string, and expanding the candidate again changes        *)
(* nothing.                                                                *)
(***************************************************************************)
IsAlias(v) ==
    /\ Len(v) = 13
    /\ SubSeq(v, 1, 4) = <<"P","H","P","_">>
    /\ v[5] \in Digits /\ v[6] \in Digits
    /\ SubSeq(v, 7, 13) = <<"_","L","A","T","E","S","T">>

IsDotted(v) == \A i \in 1..Len(v) : v[i] \in Digits \cup {".", "x"}

AliasExpansionIdempotent ==
    (Called("SetupPhpVersion") /\ OptionsDeclared /\ ~ComposerDeclared) =>
        /\ IsAlias(OptionsValue) =>
               candidate = <<OptionsValue[5], ".", OptionsValue[6], ".", "x">>
        /\ IsDotted(OptionsValue) => candidate = OptionsValue
        /\ ExpandAlias(candidate) = candidate

\* PHP_72_LATEST has been expanded to 7.2.x
AliasExpansionWitness ==
    /\ Called("SetupPhpVersion")
    /\ OptionsDeclared /\ ~ComposerDeclared
    /\ OptionsValue = PHP_72_LATEST
    /\ candidate = <<"7", ".", "2", ".", "x">>

(***************************************************************************)
(* C4.  A candidate that matches nothing in the catalog never aborts by    *)
(* itself: the not-available warning is logged and, the default lookup     *)
(* succeeding, PhpVersion is the default and SetupPhpVersion returns nil.  *)
(* SetupPhpVersion returns an error exactly when it reaches the default    *)
(* lookup and that lookup fails; Run then returns a wrapped error, having  *)
(* called no install step.                                                 *)
(***************************************************************************)
NoMatch == candidate # << >> /\ MatchesOf(candidate) = {}

InstallSteps == {"InstallHTTPD", "InstallPHP", "InstallComposer", "InstallVarify"}

NoMatchNeverAborts ==
    Called("SetupPhpVersion") =>
        /\ NoMatch => Logged("warning", "PHP version not available, using default version.")
        /\ (NoMatch /\ ~world.default.err) =>
               PhpVersion = world.default.version /\ ~FailedAt("SetupPhpVersion")
        /\ FailedAt("SetupPhpVersion") <=>
               (world.default.err /\ (candidate = << >> \/ NoMatch))
        /\ FailedAt("SetupPhpVersion") =>
               /\ err = <<"Initialiizing: php version", "no default version for php">>
               /\ \A step \in InstallSteps : ~Called(step)

\* An invalid constraint (^7.2) has been replaced by the default and Run went
\* on to the end
NoMatchWitness ==
    /\ pc = "done"
    /\ candidate = CARET72
    /\ NoMatch
    /\ PhpVersion = world.default.version
    /\ Called("InstallPHP")

(***************************************************************************)
(* C5.  When neither options.json nor composer.json exists, ReadConfig     *)
(* does not fail, the web root is empty, a successful SetupPhpVersion      *)
(* leaves the catalog default in PhpVersion, SetupExtensions leaves        *)
(* exactly bz2, zlib, curl and mcrypt as the extensions and no zend        *)
(* extension, and neither composer step is called.                         *)
(***************************************************************************)
NoDeclarativeFiles ==
    /\ world.options.stat = "absent"
    /\ world.composer.stat = "absent"
    /\ world.composerPathEnv # << >> => world.altComposer.stat = "absent"

NoFilesMeansDefaults ==
    NoDeclarativeFiles =>
        /\ ~FailedAt("ReadConfig")
        /\ Called("ReadConfig") => WebDir = << >> /\ ComposerPath = << >>
        /\ Succeeded("SetupPhpVersion") => PhpVersion = world.default.version
        /\ FailedAt("SetupPhpVersion") => world.default.err
        /\ Called("SetupExtensions") =>
               /\ PhpExtensions = {<<"b","z","2">>, <<"z","l","i","b">>,
                                   <<"c","u","r","l">>, <<"m","c","r","y","p","t">>}
               /\ ZendExtensions = {}
        /\ ~Called("InstallComposer") /\ ~Called("RunComposer")
        /\ commands = << >>

\* Scenario 2: no file at all, and Run has finished on the default version
NoFilesWitness ==
    /\ NoDeclarativeFiles
    /\ pc = "done"
    /\ PhpVersion = world.default.version
    /\ Cardinality(PhpExtensions) = 4
    /\ calls = <<"ReadConfig", "SetupPhpVersion", "SetupExtensions", "InstallHTTPD",
                 "InstallPHP", "WriteConfigFiles", "InstallVarify", "WriteProfileD",
                 "WriteStartFile">>

(***************************************************************************)
(* C6.  After SetupExtensions, a PHP_EXTENSIONS array in options.json,     *)
(* empty or not, has replaced the built-in defaults instead of being       *)
(* united with them, and every require key with the ext- prefix has been   *)
(* added whether or not the replacement happened: the set is the array's   *)
(* strings (the defaults when there is no array) plus the declared ext-    *)
(* names, plus pdo when a pdo driver is declared.                          *)
(***************************************************************************)
LegacyArray == Lookup(OptionsJson, PHP_EXTENSIONS)

LegacyNames == {LegacyArray.a[i].s : i \in {j \in 1..Len(LegacyArray.a) :
                                                LegacyArray.a[j].t = "string"}}

ExtKeys == {k \in Keys(Require(ComposerJson)) :
                Len(k) >= 4 /\ SubSeq(k, 1, 4) = <<"e","x","t","-">>}

PdoKeys == {k \in ExtKeys :
                Len(k) >= 8 /\ SubSeq(k, 5, 8) = <<"p","d","o","_">>}

NameOf(k) == SubSeq(k, 5, Len(k))

Defaults == {<<"b","z","2">>, <<"z","l","i","b">>, <<"c","u","r","l">>,
             <<"m","c","r","y","p","t">>}

LegacyReplacesDefaults ==
    Called("SetupExtensions") =>
        /\ PhpExtensions =
               (IF LegacyArray.t = "array" THEN LegacyNames ELSE Defaults)
                   \cup {NameOf(k) : k \in ExtKeys}
                   \cup (IF PdoKeys # {} THEN {<<"p","d","o">>} ELSE {})
        /\ \A k \in ExtKeys : NameOf(k) \in PhpExtensions

\* An empty PHP_EXTENSIONS array has removed every default, and the one
\* declared ext- key is there all the same
LegacyReplacesWitness ==
    /\ Called("SetupExtensions")
    /\ LegacyArray.t = "array" /\ LegacyArray.a = << >>
    /\ ExtKeys = {EXT_CURL}
    /\ PhpExtensions = {CURL}
    /\ Logged("warning", "PHP_EXTENSIONS in options.json is deprecated.")

(***************************************************************************)
(* C7.  After SetupExtensions, for every require key ext-pdo_<driver>      *)
(* the extension set holds both pdo_<driver> and the umbrella name pdo.    *)
(***************************************************************************)
PdoDriverImpliesUmbrella ==
    Called("SetupExtensions") =>
        \A k \in PdoKeys : NameOf(k) \in PhpExtensions /\ <<"p","d","o">> \in PhpExtensions

\* Scenario 3: ext-curl and ext-pdo_mysql give curl, pdo_mysql and pdo
PdoDriverWitness ==
    /\ Called("SetupExtensions")
    /\ Keys(Require(ComposerJson)) = {EXT_CURL, EXT_PDO_MYSQL}
    /\ {CURL, <<"p","d","o","_","m","y","s","q","l">>, PDO} \subseteq PhpExtensions

(***************************************************************************)
(* C8.  As the claim has it: the built-in defaults, the PHP_EXTENSIONS     *)
(* array and the ext- keys of require, merged in any of the six orders,    *)
(* give the extension set SetupExtensions leaves.                          *)
(***************************************************************************)
TierOrders(legacy, keys) ==
    {TierComposer(TierOptions(TierDefaults({}), legacy), keys),
     TierOptions(TierComposer(TierDefaults({}), keys), legacy),
     TierComposer(TierDefaults(TierOptions({}, legacy)), keys),
     TierDefaults(TierComposer(TierOptions({}, legacy), keys)),
     TierOptions(TierDefaults(TierComposer({}, keys)), legacy),
     TierDefaults(TierOptions(TierComposer({}, keys), legacy))}

SourceOrderIndependent ==
    Called("SetupExtensions") =>
        \A keys \in Orders(Keys(Require(ComposerJson))) :
            TierOrders(LegacyArray, keys) = {PhpExtensions}

(***************************************************************************)
(* C8, as the code has it.  The extension set SetupExtensions leaves does  *)
(* not depend on the order in which the entries of a source are visited:   *)
(* every order of the require keys and every order of the PHP_EXTENSIONS   *)
(* array gives the same set.  The order of the sources themselves is       *)
(* fixed; the array and the require keys may be swapped only when there is *)
(* no array.                                                               *)
(***************************************************************************)
Reorderings(arr) == {[i \in 1..Len(arr) |-> arr[o[i]]] : o \in Orders(1..Len(arr))}

Reordered(legacy) ==
    IF legacy.t = "array" THEN {JArr(a) : a \in Reorderings(legacy.a)} ELSE {legacy}

EntryOrderIndependent ==
    Called("SetupExtensions") =>
        \A keys \in Orders(Keys(Require(ComposerJson))) :
            /\ \A legacy \in Reordered(LegacyArray) :
                   PhpExtensionsFrom(legacy, keys) = PhpExtensions
            /\ LegacyArray.t # "array" =>
                   TierOptions(TierComposer(TierDefaults({}), keys), LegacyArray)
                       = PhpExtensions

\* Two array entries and two ext- keys, so that each source has two orders
EntryOrderWitness ==
    /\ Called("SetupExtensions")
    /\ LegacyArray.t = "array" /\ Cardinality(LegacyNames) = 2
    /\ Cardinality(ExtKeys) = 2
    /\ Cardinality(PhpExtensions) >= 4

(***************************************************************************)
(* C9.  As the claim has it: while WriteConfigFiles renders, ctxStage and  *)
(* ctxRun have the same keys and differ exactly on HOME, DEPS_DIR and      *)
(* TMPDIR.                                                                 *)
(***************************************************************************)
Rendering == pc = "WriteConfigFiles.walk"

Differing == {k \in DOMAIN ctxRun : ctxStage[k] # ctxRun[k]}

ContextsDifferOnPathsOnly ==
    Rendering =>
        /\ DOMAIN ctxStage = DOMAIN ctxRun
        /\ Differing = {"HOME", "DEPS_DIR", "TMPDIR"}

(***************************************************************************)
(* C9, as the code has it.  While WriteConfigFiles renders, ctxStage and   *)
(* ctxRun have the same keys and differ exactly on HOME, DEPS_DIR, TMPDIR  *)
(* and PhpExtensions; every other key, the zend block, the web root and    *)
(* the listen address included, has the same value in both.                *)
(***************************************************************************)
ContextsDifferOnPathsAndExtensions ==
    Rendering =>
        /\ DOMAIN ctxStage = DOMAIN ctxRun
        /\ Differing = {"HOME", "DEPS_DIR", "TMPDIR", "PhpExtensions"}
        /\ ctxStage.ZendExtensions = ctxRun.ZendExtensions
        /\ ctxStage.Webdir = ctxRun.Webdir
        /\ ctxStage.PhpFpmListen = ctxRun.PhpFpmListen

\* Both contexts are built, with a web root and a zend extension in them
ContextsWitness ==
    /\ Rendering
    /\ ctxRun.Webdir # << >> /\ ctxStage.Webdir = ctxRun.Webdir
    /\ ctxRun.ZendExtensions # << >>
    /\ ctxStage.HOME = world.stager.buildDir /\ ctxRun.HOME = TPL_HOME

(***************************************************************************)
(* C10.  As the claim has it: the extension block of ctxRun holds the      *)
(* openssl directive even when the aggregated set has no openssl, and the  *)
(* block of ctxStage holds the directives of the aggregated set only.      *)
(***************************************************************************)
Lines(block) == Range(Split(block, "\n")) \ {<< >>}

Directive(ext) == <<"e","x","t","e","n","s","i","o","n","=">> \o ext \o <<".","s","o">>

Aggregated == {Directive(e) : e \in PhpExtensions}

OpensslDirective == Directive(<<"o","p","e","n","s","s","l">>)

RunContextForcesOpenssl ==
    Rendering =>
        /\ OpensslDirective \in Lines(ctxRun.PhpExtensions)
        /\ Lines(ctxStage.PhpExtensions) = Aggregated

(***************************************************************************)
(* C10, as the code has it.  It is ctxStage whose extension block has the  *)
(* openssl directive forced in: the block is that of ctxRun followed by    *)
(* extension=openssl.so, even when the aggregated set has no openssl,      *)
(* while the block of ctxRun holds the directives of the aggregated set    *)
(* only.                                                                   *)
(***************************************************************************)
StageContextForcesOpenssl ==
    Rendering =>
        /\ Lines(ctxRun.PhpExtensions) = Aggregated
        /\ Lines(ctxStage.PhpExtensions) = Aggregated \cup {OpensslDirective}
        /\ ctxStage.PhpExtensions =
               ctxRun.PhpExtensions \o OpensslDirective \o <<"\n">>

\* The aggregated set has no openssl, nor has ctxRun, and ctxStage has it
StageOpensslWitness ==
    /\ Rendering
    /\ OPENSSL \notin PhpExtensions
    /\ PhpExtensions # {}
    /\ OpensslDirective \notin Lines(ctxRun.PhpExtensions)
    /\ OpensslDirective \in Lines(ctxStage.PhpExtensions)

(***************************************************************************)
(* C13.  Run calls its steps in one fixed order, the two composer steps    *)
(* only when ReadConfig found a composer.json, and stops at the first      *)
(* step that fails: what has been called is always a prefix of that        *)
(* order, a failed Run has an error and a finished one has called every    *)
(* step, and once Run has returned, or WriteConfigFiles has panicked,      *)
(* nothing more happens.                                                   *)
(***************************************************************************)
RunOrder ==
    <<"ReadConfig", "SetupPhpVersion", "SetupExtensions", "InstallHTTPD", "InstallPHP",
      "WriteConfigFiles">>
    \o (IF ComposerPath # << >> THEN <<"InstallComposer", "RunComposer">> ELSE << >>)
    \o <<"InstallVarify", "WriteProfileD", "WriteStartFile">>

CallsInOrder ==
    /\ Len(calls) <= Len(RunOrder)
    /\ calls = SubSeq(RunOrder, 1, Len(calls))
    /\ pc = "failed" => err # NoError /\ calls # << >>
    /\ pc = "done" => err = NoError /\ calls = RunOrder
    /\ pc = "panicked" => err = NoError /\ calls[Len(calls)] = "WriteConfigFiles"
    /\ pc \notin {"Run", "failed", "done", "panicked", "WriteConfigFiles.walk"} =>
           /\ Len(calls) < Len(RunOrder)
           /\ pc = RunOrder[Len(calls) + 1]

Returned == pc \in {"failed", "done"}

FixedOrderStopsAtFirstFailure ==
    [](CallsInOrder) /\ [][~Returned /\ pc # "panicked"]_vars

\* InstallComposer has failed after six steps that succeeded, and RunComposer
\* and the three last steps were never called
FirstFailureWitness ==
    /\ pc = "failed"
    /\ calls = <<"ReadConfig", "SetupPhpVersion", "SetupExtensions", "InstallHTTPD",
                 "InstallPHP", "WriteConfigFiles", "InstallComposer">>

(***************************************************************************)
(* C14.  Every error Run returns is wrapped with a phase label that names  *)
(* the failing step: whichever step has failed, the error has the label    *)
(* of a step in front of the step's own error.                             *)
(***************************************************************************)
PhaseLabels ==
    {"reading config", "Initialiizing: php version", "Initialiizing: extensions",
     "Installing HTTPD", "Installing PHP", "Error writing config files",
     "Failed to install composer", "Failed to run composer", "Failed to copy verify",
     "Failed to write profile.d", "Error writing start file"}

EveryErrorWrapped ==
    pc = "failed" => Len(err) >= 2 /\ err[1] \in PhaseLabels

(***************************************************************************)
(* C20.  When options.json and composer.json both declare a version and    *)
(* the composer.json constraint matches nothing in the catalog,            *)
(* SetupPhpVersion leaves the catalog default in PhpVersion, also when the *)
(* options.json version matches a catalog entry: that version is not       *)
(* tried again.                                                            *)
(***************************************************************************)
NoFallbackToOptions ==
    (Called("SetupPhpVersion") /\ OptionsDeclared /\ ComposerDeclared
        /\ \A v \in world.catalog : ~Satisfies(v, Replace(ComposerValue, GE, PESSIMISTIC))) =>
        IF world.default.err
        THEN FailedAt("SetupPhpVersion")
        ELSE /\ PhpVersion = world.default.version
             /\ Succeeded("SetupPhpVersion")
             /\ Logged("warning", "PHP version not available, using default version.")

\* options.json asks for 7.3.0, which the catalog has; composer.json asks for
\* >=5.6.0, which nothing matches; the default 7.2.9 is installed
NoFallbackWitness ==
    /\ pc = "done"
    /\ OptionsDeclared /\ OptionsValue = V730
    /\ ComposerDeclared /\ ComposerValue = GE560
    /\ V730 \in world.catalog
    /\ world.default = DefaultOk(V729)
    /\ PhpVersion = V729

(***************************************************************************)
(* C15.  With a token supplied, when isComposerTokenValid returns false,   *)
(* whatever the reason, RunComposer does not fail for it: the config       *)
(* command is not run, the install command is, and RunComposer returns     *)
(* what the install command returned.                                      *)
(***************************************************************************)
TokenRejected == world.token # << >> /\ world.github # "resources"

InvalidTokenNeverAborts ==
    (Called("RunComposer") /\ TokenRejected) =>
        /\ Len(commands) = 1 /\ commands[1].cmd = "install"
        /\ FailedAt("RunComposer") <=> commands[1].err # NoError
        /\ FailedAt("RunComposer") => err = commands[1].err
        /\ Logged("step", "The GitHub OAuth token supplied from $COMPOSER_GITHUB_OAUTH_TOKEN is invalid")

\* The body of the answer could not be decoded, composer install ran all the
\* same and Run finished
InvalidTokenWitness ==
    /\ pc = "done"
    /\ world.token # << >> /\ world.github = "undecodable body"
    /\ commands = <<Ran("install", NoError)>>
    /\ Logged("error", "parse json")

(***************************************************************************)
(* C19.  While WriteConfigFiles renders, in each context the extension     *)
(* blocks are duplicate-free: every name of PhpExtensions has exactly one  *)
(* line extension=<name>.so, every name of ZendExtensions exactly one line *)
(* zend_extension=<name>, the only other line is the forced openssl        *)
(* directive, and that directive is not there twice, also when openssl is  *)
(* in PhpExtensions.                                                       *)
(***************************************************************************)
LineSeq(block) ==
    IF block = << >> THEN << >>
    ELSE SubSeq(Split(block, "\n"), 1, Len(Split(block, "\n")) - 1)

Count(seq, x) == Cardinality({i \in DOMAIN seq : seq[i] = x})

ZendDirective(ext) ==
    <<"z","e","n","d","_","e","x","t","e","n","s","i","o","n","=">> \o ext

DuplicateFree(ctx) ==
    /\ \A e \in PhpExtensions : Count(LineSeq(ctx.PhpExtensions), Directive(e)) = 1
    /\ \A z \in ZendExtensions : Count(LineSeq(ctx.ZendExtensions), ZendDirective(z)) = 1
    /\ Range(LineSeq(ctx.PhpExtensions)) \subseteq Aggregated \cup {OpensslDirective}
    /\ Range(LineSeq(ctx.ZendExtensions)) = {ZendDirective(z) : z \in ZendExtensions}
    /\ Count(LineSeq(ctx.PhpExtensions), OpensslDirective) <= 1

BlocksDuplicateFree ==
    Rendering => DuplicateFree(ctxRun) /\ DuplicateFree(ctxStage)

(***************************************************************************)
(* Vocabulary of the rendering properties                                  *)
(***************************************************************************)

\* WriteConfigFiles has returned nil
Rendered ==
    Succeeded("WriteConfigFiles") /\ pc \notin {"WriteConfigFiles.walk", "panicked"}

\* The directories whose files a successful WriteConfigFiles renders, each
\* with its destination: php/<version line> and httpd of the box, then the
\* override directories that are there
BoxPhpTree ==
    (CHOOSE d \in world.templates.php :
         d[1] = SubSeq(PhpVersion, 1, Len(PhpVersion) - 1) \o <<"x">>)[2]

DestPhp == << <<"p","h","p">>, <<"e","t","c">> >>
DestHttpd == << <<"h","t","t","p","d">>, <<"c","o","n","f">> >>

\* The templates of a tree, each as a pair of its output path and its text
Under(dest, tree) == {<<dest \o tree[i].rel, tree[i].text>> : i \in DOMAIN tree}

DefaultTemplates == Under(DestPhp, BoxPhpTree) \cup Under(DestHttpd, world.templates.httpd)

OverrideTemplates ==
    Under(DestPhp, world.templates.overridePhp.tree)
    \cup Under(DestHttpd, world.templates.overrideHttpd.tree)

\* The template that decides the output at its path: an override template,
\* or a default template that no override template shadows
EffectiveTemplates ==
    OverrideTemplates \cup
    {t \in DefaultTemplates : \A o \in OverrideTemplates : o[1] # t[1]}

\* text has no action of its own, only legacy tokens
OnlyLegacyTokens(text) ==
    \A i \in 1..(Len(text) - 1) : ~(text[i] = "{" /\ text[i + 1] = "{")

\* text with each legacy token replaced by the value given for it
Substituted(text, depsDir, tmpDir, home, listen) ==
    Replace(Replace(Replace(Replace(text,
        <<"@","{","D","E","P","S","_","D","I","R","}">>, depsDir),
        <<"@","{","T","M","P","D","I","R","}">>, tmpDir),
        <<"@","{","H","O","M","E","}">>, home),
        <<"#","P","H","P","_","F","P","M","_","L","I","S","T","E","N">>, listen)

\* What a template of legacy tokens renders to below /tmp/php_etc
StageRendering(text) ==
    Substituted(text, world.stager.depsDir, <<"/","t","m","p">>, world.stager.buildDir,
                <<"1","2","7",".","0",".","0",".","1",":","9","0","0","0">>)

\* What a template of legacy tokens renders to below DepDir
RunRendering(text) ==
    Substituted(text, <<"{","{",".","D","E","P","S","_","D","I","R","}","}">>,
                <<"{","{",".","T","M","P","D","I","R","}","}">>,
                <<"{","{",".","H","O","M","E","}","}">>,
                <<"1","2","7",".","0",".","0",".","1",":","9","0","0","0">>)

(***************************************************************************)
(* C11.  After a successful WriteConfigFiles, every template made of text  *)
(* and the legacy tokens @{DEPS_DIR}, @{TMPDIR}, @{HOME} and               *)
(* #PHP_FPM_LISTEN has been rendered with each token replaced by the       *)
(* context's value: in the stage tree by the dependency root, /tmp, the    *)
(* build directory and the listen address, in the run tree by              *)
(* {{.DEPS_DIR}}, {{.TMPDIR}}, {{.HOME}} and the listen address, at the    *)
(* same path of both trees.                                                *)
(***************************************************************************)
LegacyTokensRewritten ==
    Rendered =>
        \A t \in EffectiveTemplates :
            OnlyLegacyTokens(t[2]) =>
                /\ <<t[1], StageRendering(t[2])>> \in stageTree
                /\ <<t[1], RunRendering(t[2])>> \in runTree

\* Scenario 5: php.ini with t=@{TMPDIR} has become t=/tmp for staging and
\* t={{.TMPDIR}} for running
LegacyTokensWitness ==
    /\ pc = "done"
    /\ <<DestPhp \o <<PHP_INI>>, T_TMP>> \in EffectiveTemplates
    /\ <<DestPhp \o <<PHP_INI>>, <<"t","=","/","t","m","p">> >> \in stageTree
    /\ <<DestPhp \o <<PHP_INI>>,
         <<"t","=","{","{",".","T","M","P","D","I","R","}","}">> >> \in runTree

(***************************************************************************)
(* C12.  After a successful WriteConfigFiles, the file at the path of      *)
(* every override template is the rendering of the override template in    *)
(* both trees, also where the box has a template for the same path; and    *)
(* where an override directory is missing WriteConfigFiles has not failed  *)
(* for it and the box's templates for that destination are what has been   *)
(* rendered.                                                               *)
(***************************************************************************)
OverrideShadowsDefault ==
    /\ Rendered =>
           /\ \A o \in OverrideTemplates :
                  OnlyLegacyTokens(o[2]) =>
                      /\ FileAt(stageTree, o[1]) = StageRendering(o[2])
                      /\ FileAt(runTree, o[1]) = RunRendering(o[2])
           /\ world.templates.overridePhp.stat = "absent" =>
                  \A t \in Under(DestPhp, BoxPhpTree) :
                      OnlyLegacyTokens(t[2]) =>
                          /\ FileAt(stageTree, t[1]) = StageRendering(t[2])
                          /\ FileAt(runTree, t[1]) = RunRendering(t[2])
    /\ (FailedAt("WriteConfigFiles") /\ Head(pending).kind = "error") =>
           \/ world.templates.overridePhp.stat = "error"
           \/ world.templates.overrideHttpd.stat = "error"
           \/ \A d \in world.templates.php : d[1] # versionLine(PhpVersion)

\* The box and .bp-config/php both have a php.ini; what is rendered is the
\* override, o=/tmp, and .bp-config/httpd, which is missing, has changed
\* nothing
OverrideShadowsWitness ==
    /\ pc = "done"
    /\ <<DestPhp \o <<PHP_INI>>, T_TMP>> \in DefaultTemplates
    /\ <<DestPhp \o <<PHP_INI>>, T_OVERRIDE>> \in OverrideTemplates
    /\ world.templates.overrideHttpd.stat = "absent"
    /\ FileAt(stageTree, DestPhp \o <<PHP_INI>>) = <<"o","=","/","t","m","p">>
    /\ FileAt(runTree, DestPhp \o <<PHP_INI>>)
           = <<"o","=","{","{",".","T","M","P","D","I","R","}","}">>

(***************************************************************************)
(* C16.  As the claim has it: once templates have been rendered, the      *)
(* trees are those of any other run from the same version, extension sets, *)
(* web root and templates, whatever the order in which the extension sets, *)
(* the sources and the base directories are ranged over.                   *)
(***************************************************************************)
WalkComplete == pc = "WriteConfigFiles.walk" /\ pending = << >>

\* The trees of a run that ranges over the sources in the orders defaults
\* and overrides, over the base directories from first on, with the run
\* context run
TreesOf(defaults, overrides, first, run) ==
    RenderAll(WalkItems(world.templates, versionLine(PhpVersion), defaults, overrides),
              run, CtxStage(run, world.stager), Trees(NoFiles, NoFiles), first)

SameInputsSameTrees ==
    WalkComplete /\ visited # << >> =>
        \A defaults \in Orders(SourceNames), overrides \in Orders(SourceNames),
           first \in {"run", "stage"},
           phpOrder \in Orders(PhpExtensions), zendOrder \in Orders(ZendExtensions) :
            TreesOf(defaults, overrides, first,
                    CtxRun(world.stager, WebDir, phpOrder, zendOrder))
                = Trees(runTree, stageTree)

(***************************************************************************)
(* C16, as the code has it.  The trees WriteConfigFiles has written are    *)
(* those of any other run with the same two contexts and templates,        *)
(* whatever the order in which the sources and the base directories are    *)
(* ranged over.  The contexts themselves list the extensions in the order  *)
(* in which the extension sets were ranged over.                           *)
(***************************************************************************)
SameContextsSameTrees ==
    WalkComplete =>
        /\ ctxStage = CtxStage(ctxRun, world.stager)
        /\ \A defaults \in Orders(SourceNames), overrides \in Orders(SourceNames),
              first \in {"run", "stage"} :
               TreesOf(defaults, overrides, first, ctxRun) = Trees(runTree, stageTree)

\* Five templates have been rendered, one of them the extension block of
\* two extensions, one an override
SameContextsWitness ==
    /\ WalkComplete
    /\ Len(visited) = 5
    /\ Cardinality(PhpExtensions) = 2
    /\ <<DestPhp \o <<PHP_INI>>, T_EXT>> \in DefaultTemplates
    /\ <<DestHttpd \o <<HTTPD_CONF>>, T_OVERRIDE_HTTPD>> \in OverrideTemplates
    /\ FileAt(runTree, DestPhp \o <<PHP_INI>>) = ctxRun.PhpExtensions

(***************************************************************************)
(* C17.  As the claim has it: when the walk function fails on a template,  *)
(* or a walk cannot start, WriteConfigFiles returns the error at once, the *)
(* calls still to come are never made, and every file the calls before it  *)
(* wrote is still there with the bytes they wrote.                         *)
(***************************************************************************)
\* The trees as the calls that returned nil left them
Before == RenderAll(visited, ctxRun, ctxStage, Trees(NoFiles, NoFiles), "run")

\* The calls made and the calls not made are the whole walk, in some order
\* of the sources
WalkCutShort ==
    \E defaults \in Orders(SourceNames), overrides \in Orders(SourceNames) :
        visited \o pending
            = WalkItems(world.templates, versionLine(PhpVersion), defaults, overrides)

EarlierFilesUnchanged ==
    /\ FailedAt("WriteConfigFiles") =>
           /\ err # NoError
           /\ pending # << >>
           /\ WalkCutShort
           /\ Before.run \subseteq runTree
           /\ Before.stage \subseteq stageTree
    /\ Rendered => pending = << >>

(***************************************************************************)
(* C17, as the code has it.  When the walk function fails on a template,  *)
(* or a walk cannot start, WriteConfigFiles returns the error at once: the *)
(* calls still to come are never made, no file of the calls before it is   *)
(* removed, and apart from the file at the path of the failing call, which *)
(* that call may have created anew, the trees are as the calls before it   *)
(* left them.  WriteConfigFiles returns nil only when no call is left.     *)
(***************************************************************************)
FailingPath == ItemPath(Head(pending))

Except(tree, path) == {f \in tree : f[1] # path}

\* No file of before is gone, and off path the trees are as before
KeptExcept(before, path) ==
    /\ Except(runTree, path) = Except(before.run, path)
    /\ Except(stageTree, path) = Except(before.stage, path)
    /\ Paths(before.run) \subseteq Paths(runTree)
    /\ Paths(before.stage) \subseteq Paths(stageTree)

FailureAbortsWalk ==
    /\ FailedAt("WriteConfigFiles") =>
           /\ err # NoError
           /\ pending # << >>
           /\ WalkCutShort
           /\ KeptExcept(Before, FailingPath)
    /\ Rendered => pending = << >>

\* A call has failed after one that went well and before two more: the file
\* of the first is there, nothing of the last two is
FailureAbortsWitness ==
    /\ FailedAt("WriteConfigFiles")
    /\ Len(visited) = 1
    /\ Len(pending) = 3
    /\ Paths(runTree) \cup Paths(stageTree) \subseteq {ItemPath(visited[1]), FailingPath}
    /\ ItemPath(visited[1]) \in Paths(runTree) \cap Paths(stageTree)
    /\ ItemPath(pending[2]) # FailingPath
    /\ ItemPath(pending[3]) # ItemPath(visited[1])

(***************************************************************************)
(* C18.  After a successful WriteConfigFiles the stage tree and the run    *)
(* tree have the same paths, and these are the paths of the templates of   *)
(* the box's two directories and of the override directories that are      *)
(* there, one file for each.                                               *)
(***************************************************************************)
TreesMirrorTemplates ==
    Rendered =>
        /\ Paths(stageTree) = Paths(runTree)
        /\ Paths(runTree) = {t[1] : t \in DefaultTemplates \cup OverrideTemplates}
        /\ Cardinality(runTree) = Cardinality(Paths(runTree))
        /\ Cardinality(stageTree) = Cardinality(Paths(stageTree))

\* Four default templates and two override templates, one of them at a path
\* of its own: five files in each tree
TreesMirrorWitness ==
    /\ pc = "done"
    /\ Cardinality(DefaultTemplates) = 4
    /\ Cardinality(OverrideTemplates) = 2
    /\ DestPhp \o <<EXTRA_INI>> \in Paths(runTree) \cap Paths(stageTree)
    /\ Cardinality(Paths(runTree)) = 5
    /\ Cardinality(Paths(stageTree)) = 5

====
